---- MODULE Spec2Model ----
(***************************************************************************)
(* Model of the supermarket receipt extractor: the SupermarketReceiptParser *)
(* (market detection, the Pingo Doce and Continente grammars) and the      *)
(* batch endpoint that drives it.                                          *)
(*                                                                         *)
(* Text representation.  A text is a sequence of lines (text.split('\n')), *)
(* a line is a sequence of tokens separated by one blank, a blank line is  *)
(* the empty sequence.  A token is the sequence of its characters          *)
(* (TokenTable spells the tokens of the vocabulary), and every regular     *)
(* expression of the parser is evaluated on those characters.  Lines carry *)
(* no leading or trailing blanks, so line.strip() is the identity on them. *)
(*                                                                         *)
(* Numbers.  A Python float is modelled by its value in thousandths        *)
(* (1.25 is 1250); every amount of the vocabulary has at most three        *)
(* decimals, so the representation is exact.                               *)
(***************************************************************************)
EXTENDS Integers, Sequences, FiniteSets, TLC

VARIABLES
  market,     \* SupermarketReceiptParser.market, the field of the one shared instance
  pc,         \* per request context: its position inside parse_receipt
  text,       \* per request context: the text argument of its call
  result,     \* per request context: what its call returns, None while it runs
  entry,      \* per request context: self.market as earlier calls left it (history)
  fields,     \* per request context: the locals branch, invoice, total, date, products
  lines,      \* item scans: text.split('\n')
  idx,        \* item scans: number of lines the for loop has taken
  scan,       \* item scans: the locals of the loop
  scan_pc,    \* item scans: "loop", "returned" or "raised"
  files,      \* batch endpoint: the uploaded files
  fi,         \* batch endpoint: number of files the for loop has taken
  results,    \* batch endpoint: the local list `results`
  successful, \* batch endpoint: the local counter `successful`
  failed,     \* batch endpoint: the local counter `failed`
  response,   \* batch endpoint: the BatchExtractionResult returned, None before
  batch_pc    \* batch endpoint: "loop", "returned", "http400" or "raised"

vars == <<market, pc, text, result, entry, fields, lines, idx, scan, scan_pc,
          files, fi, results, successful, failed, response, batch_pc>>

parse_vars == <<market, pc, text, result, entry, fields>>

scan_vars == <<lines, idx, scan, scan_pc>>

batch_vars == <<files, fi, results, successful, failed, response, batch_pc>>

\* Optional values: None, or Some(v) for a value v
None == <<>>

Some(v) == <<v>>

-----------------------------------------------------------------------------
(* Characters of the tokens the texts are built from. *)

TokenTable ==
   ("PD" :> <<"P", "D">>) @@
   ("PRELADA" :> <<"P", "R", "E", "L", "A", "D", "A">>) @@
   ("Tel.:" :> <<"T", "e", "l", ".", ":">>) @@
   ("226198120" :> <<"2", "2", "6", "1", "9", "8", "1", "2", "0">>) @@
   ("Pingo" :> <<"P", "i", "n", "g", "o">>) @@
   ("Doce" :> <<"D", "o", "c", "e">>) @@
   ("pingo" :> <<"p", "i", "n", "g", "o">>) @@
   ("PINGO" :> <<"P", "I", "N", "G", "O">>) @@
   ("DOCE" :> <<"D", "O", "C", "E">>) @@
   ("doce" :> <<"d", "o", "c", "e">>) @@
   ("Artigos" :> <<"A", "r", "t", "i", "g", "o", "s">>) @@
   ("PEIXARIA" :> <<"P", "E", "I", "X", "A", "R", "I", "A">>) @@
   ("PADARIA" :> <<"P", "A", "D", "A", "R", "I", "A">>) @@
   ("C" :> <<"C">>) @@
   ("E" :> <<"E">>) @@
   ("X" :> <<"X">>) @@
   ("SALMÃO" :> <<"S", "A", "L", "M", "Ã", "O">>) @@
   ("PAO" :> <<"P", "A", "O">>) @@
   ("BANANA" :> <<"B", "A", "N", "A", "N", "A">>) @@
   ("COLA" :> <<"C", "O", "L", "A">>) @@
   ("BOLO" :> <<"B", "O", "L", "O">>) @@
   ("2X1,75L" :> <<"2", "X", "1", ",", "7", "5", "L">>) @@
   ("2,000" :> <<"2", ",", "0", "0", "0">>) @@
   ("3,69" :> <<"3", ",", "6", "9">>) @@
   ("7,38" :> <<"7", ",", "3", "8">>) @@
   ("1,99" :> <<"1", ",", "9", "9">>) @@
   ("0,645" :> <<"0", ",", "6", "4", "5">>) @@
   ("1,25" :> <<"1", ",", "2", "5">>) @@
   ("0,81" :> <<"0", ",", "8", "1">>) @@
   ("1,2,3" :> <<"1", ",", "2", ",", "3">>) @@
   ("," :> <<",">>) @@
   ("2" :> <<"2">>) @@
   ("0" :> <<"0">>) @@
   ("0,00" :> <<"0", ",", "0", "0">>) @@
   ("IOGURTE" :> <<"I", "O", "G", "U", "R", "T", "E">>) @@
   ("0,89" :> <<"0", ",", "8", "9">>) @@
   ("1,78" :> <<"1", ",", "7", "8">>) @@
   ("Poupança" :> <<"P", "o", "u", "p", "a", "n", "ç", "a">>) @@
   ("Imediata" :> <<"I", "m", "e", "d", "i", "a", "t", "a">>) @@
   ("(3,40)" :> <<"(", "3", ",", "4", "0", ")">>) @@
   ("(0,40)" :> <<"(", "0", ",", "4", "0", ")">>) @@
   ("(,)" :> <<"(", ",", ")">>) @@
   ("Resumo" :> <<"R", "e", "s", "u", "m", "o">>) @@
   ("Resumo:" :> <<"R", "e", "s", "u", "m", "o", ":">>) @@
   ("TOTAL" :> <<"T", "O", "T", "A", "L">>) @@
   ("A" :> <<"A">>) @@
   ("PAGAR" :> <<"P", "A", "G", "A", "R">>) @@
   ("PAGAR:" :> <<"P", "A", "G", "A", "R", ":">>) @@
   ("Taxa" :> <<"T", "a", "x", "a">>) @@
   ("23%:" :> <<"2", "3", "%", ":">>) @@
   ("PAGO" :> <<"P", "A", "G", "O">>) @@
   ("61,20" :> <<"6", "1", ",", "2", "0">>) @@
   ("19,53" :> <<"1", "9", ",", "5", "3">>) @@
   ("24,53" :> <<"2", "4", ",", "5", "3">>) @@
   ("5,31" :> <<"5", ",", "3", "1">>) @@
   ("COMPRA" :> <<"C", "O", "M", "P", "R", "A">>) @@
   ("10,55€" :> <<"1", "0", ",", "5", "5", "€">>) @@
   ("1,0,5€" :> <<"1", ",", "0", ",", "5", "€">>) @@
   ("Data" :> <<"D", "a", "t", "a">>) @@
   ("de" :> <<"d", "e">>) @@
   ("emissão:" :> <<"e", "m", "i", "s", "s", "ã", "o", ":">>) @@
   ("16-08-2025" :> <<"1", "6", "-", "0", "8", "-", "2", "0", "2", "5">>) @@
   ("16/08/2025" :> <<"1", "6", "/", "0", "8", "/", "2", "0", "2", "5">>) @@
   ("16.08.2025" :> <<"1", "6", ".", "0", "8", ".", "2", "0", "2", "5">>) @@
   ("Fatura" :> <<"F", "a", "t", "u", "r", "a">>) @@
   ("Simplificada" :> <<"S", "i", "m", "p", "l", "i", "f", "i", "c", "a", "d", "a">>) @@
   ("FS" :> <<"F", "S">>) @@
   ("0489/067139" :> <<"0", "4", "8", "9", "/", "0", "6", "7", "1", "3", "9">>) @@
   ("MCH" :> <<"M", "C", "H">>) @@
   ("Matosinhos" :> <<"M", "a", "t", "o", "s", "i", "n", "h", "o", "s">>) @@
   ("MODELO" :> <<"M", "O", "D", "E", "L", "O">>) @@
   ("CONTINENTE" :> <<"C", "O", "N", "T", "I", "N", "E", "N", "T", "E">>) @@
   ("HIPERMERCADOS" :> <<"H", "I", "P", "E", "R", "M", "E", "R", "C", "A", "D", "O", "S">>) @@
   ("Continente" :> <<"C", "o", "n", "t", "i", "n", "e", "n", "t", "e">>) @@
   ("Nro:FS" :> <<"N", "r", "o", ":", "F", "S">>) @@
   ("Nro:" :> <<"N", "r", "o", ":">>) @@
   ("AAA218/024041" :> <<"A", "A", "A", "2", "1", "8", "/", "0", "2", "4", "0", "4", "1">>) @@
   ("11/08/2025" :> <<"1", "1", "/", "0", "8", "/", "2", "0", "2", "5">>) @@
   ("11-08-2025" :> <<"1", "1", "-", "0", "8", "-", "2", "0", "2", "5">>) @@
   ("18:05" :> <<"1", "8", ":", "0", "5">>) @@
   ("IVA" :> <<"I", "V", "A">>) @@
   ("DESCRICAO" :> <<"D", "E", "S", "C", "R", "I", "C", "A", "O">>) @@
   ("VALOR" :> <<"V", "A", "L", "O", "R">>) @@
   ("INCLUIDO" :> <<"I", "N", "C", "L", "U", "I", "D", "O">>) @@
   ("Bebidas:" :> <<"B", "e", "b", "i", "d", "a", "s", ":">>) @@
   ("Higiene:" :> <<"H", "i", "g", "i", "e", "n", "e", ":">>) @@
   ("(B)" :> <<"(", "B", ")">>) @@
   ("(A)" :> <<"(", "A", ")">>) @@
   ("AGUA" :> <<"A", "G", "U", "A">>) @@
   ("50CL" :> <<"5", "0", "C", "L">>) @@
   ("RESGUARDO" :> <<"R", "E", "S", "G", "U", "A", "R", "D", "O">>) @@
   ("15UN" :> <<"1", "5", "U", "N">>) @@
   ("5,99" :> <<"5", ",", "9", "9">>) @@
   ("3" :> <<"3">>) @@
   ("0,50" :> <<"0", ",", "5", "0">>) @@
   ("1,50" :> <<"1", ",", "5", "0">>) @@
   ("SUBTOTAL" :> <<"S", "U", "B", "T", "O", "T", "A", "L">>) @@
   ("Total" :> <<"T", "o", "t", "a", "l">>) @@
   ("descontos" :> <<"d", "e", "s", "c", "o", "n", "t", "o", "s">>) @@
   ("e" :> <<"e">>) @@
   ("poupancas" :> <<"p", "o", "u", "p", "a", "n", "c", "a", "s">>) @@
   ("Cartao" :> <<"C", "a", "r", "t", "a", "o">>) @@
   ("Credito" :> <<"C", "r", "e", "d", "i", "t", "o">>) @@
   ("Loja" :> <<"L", "o", "j", "a">>) @@
   ("Talho" :> <<"T", "a", "l", "h", "o">>)

Chars(tok) == TokenTable[tok]

Digits == {"0", "1", "2", "3", "4", "5", "6", "7", "8", "9"}

DigitSeq == <<"0", "1", "2", "3", "4", "5", "6", "7", "8", "9">>

\* the character class [\d,]
NumCh == Digits \cup {","}

\* the character class [A-Z] (ASCII only)
UpperAZ == {"A", "B", "C", "D", "E", "F", "G", "H", "I", "J", "K", "L", "M",
            "N", "O", "P", "Q", "R", "S", "T", "U", "V", "W", "X", "Y", "Z"}

UpperSeq == <<"A", "B", "C", "D", "E", "F", "G", "H", "I", "J", "K", "L", "M",
              "N", "O", "P", "Q", "R", "S", "T", "U", "V", "W", "X", "Y", "Z", "Ã", "Ç">>

LowerSeq == <<"a", "b", "c", "d", "e", "f", "g", "h", "i", "j", "k", "l", "m",
              "n", "o", "p", "q", "r", "s", "t", "u", "v", "w", "x", "y", "z", "ã", "ç">>

\* str.isupper / str.islower on one character (Unicode aware)
IsUpperCh(c) == \E i \in 1..Len(UpperSeq) : UpperSeq[i] = c

IsLowerCh(c) == \E i \in 1..Len(LowerSeq) : LowerSeq[i] = c

\* str.upper on one character
UpperCh(c) ==
  IF IsLowerCh(c) THEN UpperSeq[CHOOSE i \in 1..Len(LowerSeq) : LowerSeq[i] = c] ELSE c

UpperStr(s) == [i \in 1..Len(s) |-> UpperCh(s[i])]

\* a line of the vocabulary: its tokens, each spelled out
W(toks) == [k \in 1..Len(toks) |-> Chars(toks[k])]

\* the characters of a line: its tokens joined by one blank
RECURSIVE LineChars(_)
LineChars(line) ==
  IF line = <<>> THEN <<>>
  ELSE IF Len(line) = 1 THEN line[1]
  ELSE line[1] \o <<" ">> \o LineChars(Tail(line))

StartsWith(s, p) == Len(s) >= Len(p) /\ SubSeq(s, 1, Len(p)) = p

EndsWith(s, p) == Len(s) >= Len(p) /\ SubSeq(s, Len(s) - Len(p) + 1, Len(s)) = p

\* p occurs in s at position i
OccursAt(s, p, i) == i >= 1 /\ i + Len(p) - 1 <= Len(s) /\ SubSeq(s, i, i + Len(p) - 1) = p

\* Python's `p in s`
Contains(s, p) == \E i \in 1..(Len(s) + 1) : OccursAt(s, p, i)

AllIn(s, S) == \A i \in 1..Len(s) : s[i] \in S

HasDigit(s) == \E i \in 1..Len(s) : s[i] \in Digits

\* a full match of [\d,]+
IsNumTok(s) == s # <<>> /\ AllIn(s, NumCh)

\* a full match of \d+
IsDigitsTok(s) == s # <<>> /\ AllIn(s, Digits)

\* a full match of \d+(?:,\d+)?
IsQtyTok(s) ==
  \/ IsDigitsTok(s)
  \/ \E k \in 2..(Len(s) - 1) :
        /\ s[k] = ","
        /\ IsDigitsTok(SubSeq(s, 1, k - 1))
        /\ IsDigitsTok(SubSeq(s, k + 1, Len(s)))

\* end of the maximal run of characters of S that starts at position i (i - 1 if none)
RECURSIVE RunEnd(_, _, _)
RunEnd(s, i, S) ==
  IF i <= Len(s) /\ s[i] \in S THEN RunEnd(s, i + 1, S) ELSE i - 1

\* str.replace(',', '.')
CommaToDot(s) == [i \in 1..Len(s) |-> IF s[i] = "," THEN "." ELSE s[i]]

CountCh(s, c) == Cardinality({i \in 1..Len(s) : s[i] = c})

\* int() of a string of digits
RECURSIVE NatOf(_)
NatOf(s) ==
  IF s = <<>> THEN 0
  ELSE NatOf(SubSeq(s, 1, Len(s) - 1)) * 10
       + ((CHOOSE d \in 1..10 : DigitSeq[d] = s[Len(s)]) - 1)

\* thousandths per unit
Scale == 10 * 10 * 10

\* float(s) raises ValueError: s, made of digits and dots, is no float literal
FloatRaises(s) == ~ (AllIn(s, Digits \cup {"."}) /\ CountCh(s, ".") <= 1 /\ HasDigit(s))

\* float(s) in thousandths, for s a float literal made of digits and at most one dot
FloatVal(s) ==
  LET Val(dot) ==
        NatOf(SubSeq(s, 1, dot - 1)) * Scale
        + NatOf(SubSeq(SubSeq(s, dot + 1, Len(s)) \o <<"0", "0", "0">>, 1, 3))
  IN Val(IF CountCh(s, ".") = 0 THEN Len(s) + 1 ELSE CHOOSE i \in 1..Len(s) : s[i] = ".")

\* the exception object of a failed float(): ValueError with Python's message
ValueError(s) == <<"could not convert string to float: ", s>>
-----------------------------------------------------------------------------
(* Texts and the searches over a whole text. *)

NL == "\n"

\* the character class \s, as far as the texts hold it
WS == {" ", NL}

\* the characters of a text: its lines joined by sep
RECURSIVE JoinLines(_, _)
JoinLines(ls, sep) ==
  IF ls = <<>> THEN <<>>
  ELSE IF Len(ls) = 1 THEN LineChars(ls[1])
  ELSE LineChars(ls[1]) \o <<sep>> \o JoinLines(Tail(ls), sep)

TextChars(txt) == JoinLines(txt, NL)

\* the characters of a literal written as blank-separated tokens
Lit(toks) == LineChars(W(toks))

\* least element of a non-empty set of positions: the leftmost match of re.search
Leftmost(S) == CHOOSE i \in S : \A j \in S : i <= j

\* first position at or after i that holds no character of S
Skip(s, i, S) == RunEnd(s, i, S) + 1

\* str.strip(): drop the characters of S at both ends
RECURSIVE StripCh(_, _)
StripCh(s, S) ==
  IF s = <<>> THEN s
  ELSE IF s[1] \in S THEN StripCh(Tail(s), S)
  ELSE IF s[Len(s)] \in S THEN StripCh(SubSeq(s, 1, Len(s) - 1), S)
  ELSE s

\* str.replace(c, ''): drop every c
RECURSIVE DropCh(_, _)
DropCh(s, c) ==
  IF s = <<>> THEN s
  ELSE IF s[1] = c THEN DropCh(Tail(s), c)
  ELSE <<s[1]>> \o DropCh(Tail(s), c)

\* results of the operations that may raise: a value, or the exception raised
Ok(v) == [ok |-> TRUE, val |-> v]

Raise(e) == [ok |-> FALSE, exc |-> e]

\* float(s.replace(',', '.')), s a match of [\d,]+ (float() itself skips blanks at the ends)
ToFloat(s) ==
  LET Float(t) == IF FloatRaises(t) THEN Raise(ValueError(t)) ELSE Ok(FloatVal(t))
  IN Float(StripCh(CommaToDot(s), WS))

\* the same, the value wrapped as an Optional[float]
ToSomeFloat(s) ==
  LET Wrap(f) == IF f.ok THEN Ok(Some(f.val)) ELSE f
  IN Wrap(ToFloat(s))

\* the span <<b, r>> of a group, <<0, 0>> when the group is empty or the match fails
Span(b, r, matched) == IF matched /\ r >= b THEN <<b, r>> ELSE <<0, 0>>

\* the text of a span
Cut(tc, g) == SubSeq(tc, g[1], g[2])

\* re.search(lit\s+([\d,]+), text): group 1 of the leftmost match, <<>> if no match.
\* MatchAt(i) is the span of group 1 of the match at position i of tc
AmountAfter(tc, lit) ==
  LET Group(e, b) == Span(b, RunEnd(tc, b, NumCh), b > e)
      MatchAt(i) ==
        IF OccursAt(tc, lit, i)
        THEN Group(i + Len(lit), Skip(tc, i + Len(lit), WS))
        ELSE <<0, 0>>
      First(S) == IF S = {} THEN <<>> ELSE Cut(tc, MatchAt(Leftmost(S)))
  IN First({i \in 1..Len(tc) : MatchAt(i) # <<0, 0>>})

\* the match of  lit\s+([^\s]+)  (sep = TRUE) or  lit\s*([^\s]+)  (sep = FALSE) at i
WordAfterAt(tc, lit, i, sep) ==
  LET Group(e, b) == Span(b, RunEnd(tc, b, {tc[k] : k \in 1..Len(tc)} \ WS), sep => b > e)
  IN IF OccursAt(tc, lit, i)
     THEN Group(i + Len(lit), Skip(tc, i + Len(lit), WS))
     ELSE <<0, 0>>

\* the span of group 1 of the leftmost match, <<0, 0>> if no match
WordAfter(tc, lit, sep) ==
  LET First(S) == IF S = {} THEN <<0, 0>> ELSE WordAfterAt(tc, lit, Leftmost(S), sep)
  IN First({i \in 1..Len(tc) : WordAfterAt(tc, lit, i, sep) # <<0, 0>>})

-----------------------------------------------------------------------------
(* Market detection. *)

PingoDoce == Lit(<<"Pingo", "Doce">>)

Continente == Lit(<<"Continente">>)

\* a detection that looks for the brand of Continente in the whole text
DetectMarket_WholeText(txt) ==
  IF Contains(UpperStr(TextChars(txt)), Lit(<<"CONTINENTE">>)) THEN Some(Continente)
  ELSE IF Contains(UpperStr(TextChars(txt)), UpperStr(PingoDoce)) THEN Some(PingoDoce)
  ELSE None

\* _detect_market: the brand of the first two lines, else the brand anywhere
DetectMarket(txt) ==
  LET first_two_lines == UpperStr(JoinLines(SubSeq(txt, 1, IF Len(txt) < 2 THEN Len(txt) ELSE 2), " "))
  IN IF Contains(first_two_lines, Lit(<<"CONTINENTE">>)) THEN Some(Continente)
     ELSE IF Contains(UpperStr(TextChars(txt)), UpperStr(PingoDoce)) THEN Some(PingoDoce)
     ELSE None

-----------------------------------------------------------------------------
(* The Pingo Doce grammar: field extractors. *)

\* s[i], or "" past the ends
At(s, i) == IF i \in 1..Len(s) THEN s[i] ELSE ""

\* first non-blank line of the text, <<>> if every line is blank
FirstNonBlank(txt) ==
  LET First(S) == IF S = {} THEN <<>> ELSE txt[Leftmost(S)]
  IN First({k \in 1..Len(txt) : txt[k] # <<>>})

\* the fallback of _extract_branch: re.search(PD\s+([^\n]+), text).  MatchAt(i) is the
\* span of group 1 of the match at position i of tc, <<0, 0>> if there is none
LegacyBranch(tc) ==
  LET Group(e, b) == Span(b, RunEnd(tc, b, {tc[k] : k \in 1..Len(tc)} \ {NL}), b > e)
      MatchAt(i) ==
        IF OccursAt(tc, <<"P", "D">>, i) THEN Group(i + 2, Skip(tc, i + 2, WS)) ELSE <<0, 0>>
      First(S) ==
        IF S = {} THEN None
        ELSE Some(<<"P", "D", " ">> \o StripCh(Cut(tc, MatchAt(Leftmost(S))), WS))
  IN First({i \in 1..Len(tc) : MatchAt(i) # <<0, 0>>})

\* _extract_branch: the first non-blank line unless it starts with Tel.:, else "PD <name>"
ExtractBranch(txt) ==
  LET Branch(first) ==
        IF first # <<>> /\ ~ StartsWith(first, <<"T", "e", "l", ".", ":">>) THEN Some(first)
        ELSE LegacyBranch(TextChars(txt))
  IN Branch(LineChars(FirstNonBlank(txt)))

\* the match of  lit\s+FS\s+([^\s]+)  (sep = TRUE) or  lit\s*FS\s+([^\s]+)  at i
InvoiceAt(tc, lit, i, sep) ==
  LET Group(e, b) == IF sep /\ b = e THEN <<0, 0>> ELSE WordAfterAt(tc, <<"F", "S">>, b, TRUE)
  IN IF OccursAt(tc, lit, i)
     THEN Group(i + Len(lit), Skip(tc, i + Len(lit), WS))
     ELSE <<0, 0>>

\* the span of the invoice number of the leftmost match, <<0, 0>> if no match
InvoiceSpan(tc, lit, sep) ==
  LET First(S) == IF S = {} THEN <<0, 0>> ELSE InvoiceAt(tc, lit, Leftmost(S), sep)
  IN First({i \in 1..Len(tc) : InvoiceAt(tc, lit, i, sep) # <<0, 0>>})

\* f"FS {match.group(1)}" for the match at span g of tc, None if there is no match
InvoiceOf(tc, g) == IF g = <<0, 0>> THEN None ELSE Some(<<"F", "S", " ">> \o Cut(tc, g))

\* _extract_invoice
ExtractInvoice(txt) ==
  LET Invoice(tc) == InvoiceOf(tc, InvoiceSpan(tc, Lit(<<"Fatura", "Simplificada">>), TRUE))
  IN Invoice(TextChars(txt))

COMPRA == <<"C", "O", "M", "P", "R", "A">>

\* the match of  COMPRA\s+([\d]+),\s*([\d]+)€  at i: <<b1, r1, b2, r2>>, <<>> if none
CompraSplitAt(tc, i) ==
  LET Second(e, b1, r1, b2) ==
        LET Close(r2) ==
              IF b1 > e /\ r1 >= b1 /\ At(tc, r1 + 1) = "," /\ r2 >= b2 /\ At(tc, r2 + 1) = "€"
              THEN <<b1, r1, b2, r2>> ELSE <<>>
        IN Close(RunEnd(tc, b2, Digits))
      First(e, b1) ==
        LET Comma(r1) == Second(e, b1, r1, Skip(tc, r1 + 2, WS))
        IN Comma(RunEnd(tc, b1, Digits))
  IN IF OccursAt(tc, COMPRA, i) THEN First(i + 6, Skip(tc, i + 6, WS)) ELSE <<>>

\* the match of  COMPRA\s+([\d,\s]+)€  at i: the span of group 1, <<0, 0>> if none
CompraLooseAt(tc, i) ==
  LET Group(e, w, r) ==
        IF w >= e /\ r >= e + 1 /\ At(tc, r + 1) = "€"
        THEN (IF w < r THEN <<w + 1, r>> ELSE <<r, r>>)
        ELSE <<0, 0>>
  IN IF OccursAt(tc, COMPRA, i)
     THEN Group(i + 6, RunEnd(tc, i + 6, WS), RunEnd(tc, i + 6, NumCh \cup WS))
     ELSE <<0, 0>>

\* patterns 3 and 4 of _extract_total: the two COMPRA shapes
CompraTotal(tc) ==
  LET Split(g) == Ok(Some(FloatVal(SubSeq(tc, g[1], g[2]) \o <<".">> \o SubSeq(tc, g[3], g[4]))))
      Loose(S4) ==
        IF S4 = {} THEN Ok(None)
        ELSE ToSomeFloat(DropCh(Cut(tc, CompraLooseAt(tc, Leftmost(S4))), " "))
      First(S3) ==
        IF S3 # {} THEN Split(CompraSplitAt(tc, Leftmost(S3)))
        ELSE Loose({i \in 1..Len(tc) : CompraLooseAt(tc, i) # <<0, 0>>})
  IN First({i \in 1..Len(tc) : CompraSplitAt(tc, i) # <<>>})

\* _extract_total: TOTAL A PAGAR, then TOTAL PAGO, then the two COMPRA shapes
ExtractTotal(txt) ==
  LET Pago(tc, a2) == IF a2 # <<>> THEN ToSomeFloat(a2) ELSE CompraTotal(tc)
      Pagar(tc, a1) ==
        IF a1 # <<>> THEN ToSomeFloat(a1)
        ELSE Pago(tc, AmountAfter(tc, Lit(<<"TOTAL", "PAGO">>)))
      Total(tc) == Pagar(tc, AmountAfter(tc, Lit(<<"TOTAL", "A", "PAGAR">>)))
  IN Total(TextChars(txt))

\* re.match(\d{2}<sep>\d{2}<sep>\d{4}, d), sep one of the characters of seps
IsDatePrefix(d, seps) ==
  /\ Len(d) >= 10
  /\ \A k \in {1, 2, 4, 5, 7, 8, 9, 10} : d[k] \in Digits
  /\ d[3] \in seps /\ d[6] \in seps

\* str.replace('-', '/')
DashToSlash(d) == [i \in 1..Len(d) |-> IF d[i] = "-" THEN "/" ELSE d[i]]

\* _extract_date
ExtractDate(txt) ==
  LET Format(date_str) ==
        IF IsDatePrefix(date_str, {"-"}) THEN Some(DashToSlash(date_str))
        ELSE IF IsDatePrefix(date_str, {"/"}) THEN Some(date_str)
        ELSE Some(date_str)
      Date(tc, g) == IF g = <<0, 0>> THEN None ELSE Format(Cut(tc, g))
      Search(tc) == Date(tc, WordAfter(tc, Lit(<<"Data", "de", "emissão:">>), FALSE))
  IN Search(TextChars(txt))

-----------------------------------------------------------------------------
(* The Pingo Doce grammar: line classifier and product lines. *)

\* str.isupper(): a cased character, and no lower-case one
IsUpperStr(s) ==
  /\ \E i \in 1..Len(s) : IsUpperCh(s[i])
  /\ \A i \in 1..Len(s) : ~ IsLowerCh(s[i])

\* _is_product_type_header, on the characters of the line
IsProductTypeHeader(lc) ==
  /\ IsUpperStr(lc)
  /\ ~ HasDigit(lc)
  /\ ~ (At(lc, 1) \in UpperAZ /\ At(lc, 2) \in WS)

PoupancaImediata ==
  <<"P", "o", "u", "p", "a", "n", "ç", "a", " ", "I", "m", "e", "d", "i", "a", "t", "a">>

\* _parse_discount_line: the amount, None when the line is no discount line.
\* MatchAt(i) is the span of group 1 of the match of
\* Poupança Imediata\s*\(([\d,]+)\)  at position i, <<0, 0>> if there is none
ParseDiscountLine(lc) ==
  LET Group(b) ==
        Span(b + 1, RunEnd(lc, b + 1, NumCh),
             At(lc, b) = "(" /\ At(lc, RunEnd(lc, b + 1, NumCh) + 1) = ")")
      MatchAt(i) ==
        IF OccursAt(lc, PoupancaImediata, i)
        THEN Group(Skip(lc, i + Len(PoupancaImediata), WS))
        ELSE <<0, 0>>
      First(S) ==
        IF S = {} THEN Ok(None) ELSE ToSomeFloat(Cut(lc, MatchAt(Leftmost(S))))
  IN First({i \in 1..Len(lc) : MatchAt(i) # <<0, 0>>})

\* Product(...), discount and discount2 defaulting to None
Product(product_type, product, price, quantity) ==
  [product_type |-> product_type, product |-> product, price |-> price,
   quantity |-> quantity, discount |-> None, discount2 |-> None]

\* a token that is one character of [A-Z]
IsTypeTok(tok) == Len(tok) = 1 /\ tok[1] \in UpperAZ

\* the tokens n - 3 .. n of a line of n tokens match  <q>\s+X\s+([\d,]+)\s+([\d,]+)$
\* where <q> is \d+(?:,\d+)? (strict) or [\d,]+
TimesTail(line, n, strict) ==
  /\ n >= 6
  /\ IF strict THEN IsQtyTok(line[n - 3]) ELSE IsNumTok(line[n - 3])
  /\ line[n - 2] = <<"X">>
  /\ IsNumTok(line[n - 1])
  /\ IsNumTok(line[n])

\* the groups of the first of pattern1, pattern3, pattern2, pattern4 that matches the
\* line, <<>> if none does.  The patterns are anchored at both ends and separate their
\* groups by \s+, so on a line of tokens joined by one blank each group but the lazy
\* (.+?) is one token, and the lazy groups are the runs of tokens left between them.
ProductLineGroups(line) ==
  LET Groups(n) ==
        IF n = 0 \/ ~ IsTypeTok(line[1]) THEN <<>>
        ELSE IF TimesTail(line, n, TRUE) \/ TimesTail(line, n, FALSE)
        THEN <<line[1], LineChars(SubSeq(line, 2, n - 4)), line[n - 3], line[n - 1], line[n]>>
        ELSE IF n >= 3 /\ IsNumTok(line[n])
        THEN <<line[1], LineChars(SubSeq(line, 2, n - 1)), line[n]>>
        ELSE IF n >= 5 /\ IsTypeTok(line[2]) /\ IsNumTok(line[n])
        THEN <<line[1], line[2], line[3], LineChars(SubSeq(line, 4, n - 1)), line[n]>>
        ELSE <<>>
  IN Groups(Len(line))

\* re.search((\d+), s): the first run of digits, <<>> if s holds no digit
FirstInt(s) ==
  LET First(S) ==
        IF S = {} THEN <<>> ELSE SubSeq(s, Leftmost(S), RunEnd(s, Leftmost(S), Digits))
  IN First({i \in 1..Len(s) : s[i] \in Digits})

\* the Product of a matched line, or the ValueError of the float() that fails first
ProductOf(section_type, name, quantity, price) ==
  IF ~ quantity.ok THEN quantity
  ELSE IF ~ price.ok THEN price
  ELSE Ok(Some(Product(section_type, StripCh(name, WS), price.val, quantity.val)))

\* _parse_product_line: Ok(product), Ok(None) when the line is no product line, or the
\* ValueError of a float() on a malformed number
ParseProductLine(line, section_type) ==
  LET Digit(qm) == Ok(IF qm # <<>> THEN FloatVal(qm) ELSE Scale)
      Parse(lc, groups) ==
        IF Contains(lc, PoupancaImediata) THEN Ok(None)
        ELSE IF groups = <<>> THEN Ok(None)
        ELSE IF Len(groups) = 5
        THEN IF Contains(lc, <<"X">>)
             THEN ProductOf(section_type, groups[2], ToFloat(groups[3]), ToFloat(groups[4]))
             ELSE ProductOf(section_type, groups[2] \o <<" ">> \o groups[3],
                            Digit(FirstInt(groups[4])), ToFloat(groups[5]))
        ELSE ProductOf(section_type, groups[2], Ok(Scale), ToFloat(groups[3]))
  IN Parse(LineChars(line), ProductLineGroups(line))

-----------------------------------------------------------------------------
(* The Pingo Doce grammar: the item scan of _extract_products. *)

\* a terminator test that takes the whole line for the marker
IsResumo_Exact(lc) == lc = <<"R", "e", "s", "u", "m", "o">>

\* line.startswith("Resumo")
IsResumo(lc) == StartsWith(lc, <<"R", "e", "s", "u", "m", "o">>)

\* truth value of an Optional[str]: neither None nor ''
Truthy(opt) == opt # None /\ opt[1] # <<>>

\* an attachment that always writes the first slot
AttachDiscount_FirstSlot(prods, last, discount) ==
  [prods EXCEPT ![last].discount = Some(discount)]

\* an attachment that writes each slot once
AttachDiscount_WriteOnce(prods, last, discount) ==
  IF prods[last].discount = None
  THEN [prods EXCEPT ![last].discount = Some(discount)]
  ELSE IF prods[last].discount2 = None
  THEN [prods EXCEPT ![last].discount2 = Some(discount)]
  ELSE prods

\* the assignments to last_product.discount / last_product.discount2: last_product
\* is the object appended last, so the write lands in products[last_product]
AttachDiscount(prods, last, discount) ==
  IF prods[last].discount = None
  THEN [prods EXCEPT ![last].discount = Some(discount)]
  ELSE [prods EXCEPT ![last].discount2 = Some(discount)]

\* locals that start the loop inside a section
PDScanInit_InSection ==
  [products |-> <<>>, current_section |-> Some(<<"A", "r", "t", "i", "g", "o", "s">>),
   last_product |-> 0, ctl |-> "next", exc |-> <<>>]

\* the locals of the loop before its first iteration
PDScanInit ==
  [products |-> <<>>, current_section |-> None, last_product |-> 0,
   ctl |-> "next", exc |-> <<>>]

\* one iteration of `for line in lines`: the locals after it, ctl "next" (go on to the
\* next line), "break" (the loop is left) or "raise" (an exception leaves the method)
PDScanLine(st, line) ==
  LET Item(product) ==
        IF ~ product.ok THEN [st EXCEPT !.ctl = "raise", !.exc = product.exc]
        ELSE IF product.val = None THEN st
        ELSE [st EXCEPT !.products = Append(@, product.val[1]),
                        !.last_product = Len(st.products) + 1]
      Discount(discount) ==
        IF ~ discount.ok THEN [st EXCEPT !.ctl = "raise", !.exc = discount.exc]
        ELSE IF discount.val # None /\ st.last_product # 0
        THEN [st EXCEPT !.products = AttachDiscount(@, st.last_product, discount.val[1])]
        ELSE IF ~ Truthy(st.current_section) THEN st
        ELSE Item(ParseProductLine(line, st.current_section[1]))
      Classify(lc) ==
        IF lc = <<>> THEN st
        ELSE IF IsResumo(lc) THEN [st EXCEPT !.ctl = "break"]
        ELSE IF IsProductTypeHeader(lc) THEN [st EXCEPT !.current_section = Some(lc)]
        ELSE Discount(ParseDiscountLine(lc))
  IN Classify(LineChars(line))

\* the loop from line k on
RECURSIVE PDScanFrom(_, _, _)
PDScanFrom(st, ls, k) ==
  IF k > Len(ls) \/ st.ctl # "next" THEN st
  ELSE PDScanFrom(PDScanLine(st, ls[k]), ls, k + 1)

\* what the method leaves with: Ok(products) or the exception raised
ScanOutcome(st) == IF st.ctl = "raise" THEN Raise(st.exc) ELSE Ok(st.products)

\* _extract_products
ExtractProducts(txt) == ScanOutcome(PDScanFrom(PDScanInit, txt, 1))

-----------------------------------------------------------------------------
(* The Continente grammar: field extractors. *)

\* _extract_continente_branch: the first line, if it is not blank
ExtractContinenteBranch(txt) ==
  LET Branch(first_line) == IF first_line # <<>> THEN Some(first_line) ELSE None
  IN Branch(StripCh(LineChars(txt[1]), WS))

Nro == <<"N", "r", "o", ":">>

\* _extract_continente_invoice
ExtractContinenteInvoice(txt) ==
  LET Invoice(tc) == InvoiceOf(tc, InvoiceSpan(tc, Nro, FALSE))
  IN Invoice(TextChars(txt))

\* _extract_continente_total
ExtractContinenteTotal(txt) ==
  LET Total(a) == IF a # <<>> THEN ToSomeFloat(a) ELSE Ok(None)
  IN Total(AmountAfter(TextChars(txt), Lit(<<"TOTAL", "A", "PAGAR">>)))

\* the match of  Nro:\s*FS\s+[^\s]+\s+(\d{2}[/-]\d{2}[/-]\d{4})  at i: the span of
\* group 1, <<0, 0>> if none
ContinenteDateAt(tc, i) ==
  LET Date(g, b) ==
        IF g # <<0, 0>> /\ b > g[2] + 1 /\ b + 9 <= Len(tc)
           /\ IsDatePrefix(SubSeq(tc, b, b + 9), {"/", "-"})
        THEN <<b, b + 9>> ELSE <<0, 0>>
      Number(g) == Date(g, Skip(tc, g[2] + 1, WS))
  IN Number(InvoiceAt(tc, Nro, i, FALSE))

\* _extract_continente_date
ExtractContinenteDate(txt) ==
  LET Format(date_str) ==
        IF Contains(date_str, <<"-">>) THEN Some(DashToSlash(date_str)) ELSE Some(date_str)
      First(tc, S) ==
        IF S = {} THEN None ELSE Format(Cut(tc, ContinenteDateAt(tc, Leftmost(S))))
      Search(tc) == First(tc, {i \in 1..Len(tc) : ContinenteDateAt(tc, i) # <<0, 0>>})
  IN Search(TextChars(txt))

-----------------------------------------------------------------------------
(* The Continente grammar: product lines and continuation lines. *)

\* re.match(^\([A-Z]\), line)
IsContinenteProductStart(lc) ==
  At(lc, 1) = "(" /\ At(lc, 2) \in UpperAZ /\ At(lc, 3) = ")"

\* the match of  (\d+)\s*X\s*[\d,]+  at i: <<i, end of group 1, start of the amount>>
QtyTimesAt(lc, i) ==
  LET Amount(r, x, y) ==
        IF At(lc, x) = "X" /\ At(lc, y) \in NumCh THEN <<i, r, y>> ELSE <<>>
      Times(r, x) == Amount(r, x, Skip(lc, x + 1, WS))
      Qty(r) == Times(r, Skip(lc, r + 1, WS))
  IN IF At(lc, i) \notin Digits THEN <<>> ELSE Qty(RunEnd(lc, i, Digits))

\* re.search((\d+)\s*X\s*[\d,]+, line): the leftmost match, <<>> if none
QtyTimes(lc) ==
  LET First(S) == IF S = {} THEN <<>> ELSE QtyTimesAt(lc, Leftmost(S))
  IN First({i \in 1..Len(lc) : QtyTimesAt(lc, i) # <<>>})

\* start of the run of [\d,] that ends the string (Len + 1 if it ends otherwise)
RECURSIVE TrailingNumStart(_, _)
TrailingNumStart(s, k) ==
  IF k >= 1 /\ s[k] \in NumCh THEN TrailingNumStart(s, k - 1) ELSE k + 1

\* _parse_continente_product_line: Some(product), None when the line is no product line.
\* PriceOrZero is float(price_str.replace(',', '.')) under try / except ValueError
ParseContinenteProductLine(lc, section_type) ==
  LET PriceOrZero(f) == IF f.ok THEN f.val ELSE 0
      Quantity(qm) == IF qm # <<>> THEN FloatVal(SubSeq(lc, qm[1], qm[2])) ELSE Scale
      Priced(name, price) ==
        Some(Product(section_type, name, price,
                     IF price > 0 THEN Quantity(QtyTimes(lc)) ELSE Scale))
      Split(name0, p) ==
        IF p > Len(name0) THEN Priced(name0, 0)
        ELSE Priced(StripCh(SubSeq(name0, 1, p - 1), WS),
                    PriceOrZero(ToFloat(SubSeq(name0, p, Len(name0)))))
      Named(name0) ==
        IF name0 = <<>> THEN None ELSE Split(name0, TrailingNumStart(name0, Len(name0)))
  IN IF ~ IsContinenteProductStart(lc) THEN None
     ELSE Named(StripCh(SubSeq(lc, 4, Len(lc)), WS))

\* the groups of  (\d+)\s*X\s*([\d,]+)\s*([\d,]+)  for the match that starts like q:
\* the first amount takes the whole run of [\d,]; when no amount follows it, it gives
\* its last character up to the second one.  <<>> if there is no match
QtyPriceGroups(lc, q) ==
  LET Groups(y, r2, z) ==
        IF At(lc, z) \in NumCh
        THEN <<SubSeq(lc, q[1], q[2]), SubSeq(lc, y, r2), SubSeq(lc, z, RunEnd(lc, z, NumCh))>>
        ELSE IF r2 > y
        THEN <<SubSeq(lc, q[1], q[2]), SubSeq(lc, y, r2 - 1), SubSeq(lc, r2, r2)>>
        ELSE <<>>
      Unit(y, r2) == Groups(y, r2, Skip(lc, r2 + 1, WS))
  IN IF q = <<>> THEN <<>> ELSE Unit(q[3], RunEnd(lc, q[3], NumCh))

\* re.search((\d+)\s*X\s*([\d,]+)\s*([\d,]+), line): the groups of the leftmost match
QtyPrice(lc) ==
  LET First(S) == IF S = {} THEN <<>> ELSE QtyPriceGroups(lc, QtyTimesAt(lc, Leftmost(S)))
  IN First({i \in 1..Len(lc) : QtyPriceGroups(lc, QtyTimesAt(lc, i)) # <<>>})

\* the Product a continuation line gives, or the ValueError of the float() that fails first
UpdatedProduct(product, quantity, unit_price, total_price) ==
  IF ~ unit_price.ok THEN unit_price
  ELSE IF ~ total_price.ok THEN total_price
  ELSE Ok(Some(Product(product.product_type, product.product, unit_price.val, quantity)))

\* _parse_continente_price_line: Ok(Some(product)), Ok(None) when the line is no
\* continuation line, or the ValueError of a float() on a malformed number
ParseContinentePriceLine(lc, product) ==
  LET Parse(g) ==
        IF g # <<>>
        THEN UpdatedProduct(product, FloatVal(g[1]), ToFloat(g[2]), ToFloat(g[3]))
        ELSE IF IsNumTok(lc)
        THEN UpdatedProduct(product, product.quantity, ToFloat(lc), Ok(0))
        ELSE Ok(None)
  IN Parse(QtyPrice(lc))

-----------------------------------------------------------------------------
(* The Continente grammar: the item scan of _extract_continente_products. *)

\* line.endswith(':') and not line.startswith('(')
IsContinenteHeader(lc) == EndsWith(lc, <<":">>) /\ ~ StartsWith(lc, <<"(">>)

\* line.rstrip(':')
RECURSIVE RStripColon(_)
RStripColon(s) ==
  IF s # <<>> /\ s[Len(s)] = ":" THEN RStripColon(SubSeq(s, 1, Len(s) - 1)) ELSE s

\* the phrases that end the scan
Terminators ==
  {<<"T", "O", "T", "A", "L", " ", "A", " ", "P", "A", "G", "A", "R">>,
   <<"C", "A", "R", "T", "A", "O", " ", "C", "R", "E", "D", "I", "T", "O">>,
   <<"I", "V", "A", " ", "I", "N", "C", "L", "U", "I", "D", "O">>}

\* any(phrase in line.upper() for phrase in [...])
IsContinenteTerminator(lc) ==
  LET AnyPhrase(upper) == \E phrase \in Terminators : Contains(upper, phrase)
  IN AnyPhrase(UpperStr(lc))

\* 'IVA DESCRICAO VALOR' in line.upper()
IsColumnTitle(lc) ==
  Contains(UpperStr(lc),
           <<"I", "V", "A", " ", "D", "E", "S", "C", "R", "I", "C", "A", "O", " ",
             "V", "A", "L", "O", "R">>)

\* the locals of the loop before its first iteration
CTScanInit ==
  [products |-> <<>>, current_section |-> None, parsing_products |-> FALSE,
   pending_product |-> None, ctl |-> "next", exc |-> <<>>]

\* `if pending_product: products.append(pending_product)`
Flushed(st) ==
  IF st.pending_product # None THEN Append(st.products, st.pending_product[1])
  ELSE st.products

\* a branch for a product line that forgets the product still pending
CTProductLine_DropsPending(st, lc) ==
  LET Place(product) ==
        IF product = None THEN [st EXCEPT !.pending_product = None]
        ELSE IF product[1].price > 0
        THEN [st EXCEPT !.products = Append(@, product[1]), !.pending_product = None]
        ELSE [st EXCEPT !.pending_product = product]
  IN Place(ParseContinenteProductLine(lc, st.current_section[1]))

\* the branch of the loop body for a line that starts with (LETTER)
CTProductLine(st, lc) ==
  LET Place(flushed, product) ==
        IF product = None
        THEN [st EXCEPT !.products = flushed, !.pending_product = None]
        ELSE IF product[1].price > 0
        THEN [st EXCEPT !.products = Append(flushed, product[1]), !.pending_product = None]
        ELSE [st EXCEPT !.products = flushed, !.pending_product = product]
  IN Place(Flushed(st), ParseContinenteProductLine(lc, st.current_section[1]))

\* the branch of the loop body for a line with a digit or comma met while an item is pending
CTPriceLine(st, lc) ==
  LET Place(updated_product) ==
        IF ~ updated_product.ok
        THEN [st EXCEPT !.ctl = "raise", !.exc = updated_product.exc]
        ELSE IF updated_product.val = None THEN st
        ELSE [st EXCEPT !.products = Append(@, updated_product.val[1]),
                        !.pending_product = None]
  IN Place(ParseContinentePriceLine(lc, st.pending_product[1]))

\* one iteration of `for line in lines`
CTScanLine(st, line) ==
  LET Classify(lc) ==
        IF lc = <<>> THEN st
        ELSE IF IsContinenteHeader(lc)
        THEN [st EXCEPT !.current_section = Some(RStripColon(lc)), !.parsing_products = TRUE]
        ELSE IF IsContinenteTerminator(lc) THEN [st EXCEPT !.ctl = "break"]
        ELSE IF IsColumnTitle(lc) THEN [st EXCEPT !.parsing_products = TRUE]
        ELSE IF ~ (st.parsing_products /\ Truthy(st.current_section)) THEN st
        ELSE IF IsContinenteProductStart(lc) THEN CTProductLine(st, lc)
        ELSE IF st.pending_product # None /\ (\E i \in 1..Len(lc) : lc[i] \in NumCh)
        THEN CTPriceLine(st, lc)
        ELSE st
  IN Classify(LineChars(line))

\* the statement after the loop: a product still pending is appended
CTFlush(st) == [st EXCEPT !.products = Flushed(st)]

\* the loop from line k on
RECURSIVE CTScanFrom(_, _, _)
CTScanFrom(st, ls, k) ==
  IF k > Len(ls) \/ st.ctl # "next" THEN st
  ELSE CTScanFrom(CTScanLine(st, ls[k]), ls, k + 1)

\* _extract_continente_products: the loop, then the append of a pending product
ExtractContinenteProducts(txt) ==
  LET Finish(st) == IF st.ctl = "raise" THEN st ELSE CTFlush(st)
  IN ScanOutcome(Finish(CTScanFrom(CTScanInit, txt, 1)))

-----------------------------------------------------------------------------
(* Receipt, ExtractionResult and the two _parse_*_receipt methods. *)

\* ExtractionResult(success=False, error_message=...); a message is the sequence of
\* the pieces it is formatted from
Failure(msg) == [success |-> FALSE, receipt |-> None, error_message |-> Some(msg)]

\* ExtractionResult(success=True, receipt=...)
Success(receipt) == [success |-> TRUE, receipt |-> Some(receipt), error_message |-> None]

\* pydantic rejects Receipt(market=None): market is a required str
ValidationError == <<"1 validation error for Receipt", <<"m", "a", "r", "k", "e", "t">>>>

\* the locals of a _parse_*_receipt method when it reaches Receipt(...)
Fields(branch, invoice, total, date, prods) ==
  [branch |-> branch, invoice |-> invoice, total |-> total, date |-> date,
   products |-> prods]

\* an ExtractionResult returned before Receipt(...) is reached
Early(res) == Ok([early |-> TRUE, res |-> res])

\* the statements of a _parse_*_receipt method after its extractors have run, in the
\* order the method runs them: Ok of an early ExtractionResult, Ok of the locals, or
\* the exception raised
GrammarOutcome(branch, invoice, total, date, prods) ==
  IF ~ Truthy(branch) THEN Early(Failure(<<"Could not extract branch information">>))
  ELSE IF ~ total.ok THEN total
  ELSE IF ~ prods.ok THEN prods
  ELSE IF prods.val = <<>> THEN Early(Failure(<<"No products found in receipt">>))
  ELSE Ok([early |-> FALSE,
           fields |-> Fields(branch[1], invoice, total.val, date, prods.val)])

\* the body of _parse_pingo_doce_receipt up to the construction of the Receipt
PingoDoceFields(txt) ==
  GrammarOutcome(ExtractBranch(txt), ExtractInvoice(txt), ExtractTotal(txt),
                 ExtractDate(txt), ExtractProducts(txt))

\* the same for _parse_continente_receipt
ContinenteFields(txt) ==
  GrammarOutcome(ExtractContinenteBranch(txt), ExtractContinenteInvoice(txt),
                 ExtractContinenteTotal(txt), ExtractContinenteDate(txt),
                 ExtractContinenteProducts(txt))

\* Receipt(market=self.market, ...) and the return that follows it: mkt is the value of
\* the instance field at that moment
BuildReceipt(mkt, f) ==
  IF mkt = None THEN Raise(ValidationError)
  ELSE Ok(Success([market |-> mkt[1], branch |-> f.branch, invoice |-> f.invoice,
                   total |-> f.total, date |-> f.date, products |-> f.products]))

\* the except clause of parse_receipt
ErrorParsing(exc) == Failure(<<"Error parsing receipt: ">> \o exc)

\* the grammar a call is routed to, by its position in parse_receipt
GrammarFields(g, txt) ==
  IF g = "pingo_doce" THEN PingoDoceFields(txt) ELSE ContinenteFields(txt)

\* str(self.market) inside the "Unsupported market" message
MarketStr(mkt) == IF mkt = None THEN <<"N", "o", "n", "e">> ELSE mkt[1]

\* parse_receipt without its except clause: an exception leaves the call without outcome
Caught_NoExcept(r) == IF r.ok THEN Some(r.val) ELSE None

\* the outcome of parse_receipt when its body ends with r: the except clause turns an
\* exception into a failure
Caught(r) == IF r.ok THEN Some(r.val) ELSE Some(ErrorParsing(r.exc))

\* parse_receipt run alone on a fresh instance: the detected market is the one used for
\* the routing and for the Receipt
ParseReceipt(txt) ==
  LET Built(mkt, f) ==
        IF ~ f.ok THEN ErrorParsing(f.exc)
        ELSE IF f.val.early THEN f.val.res
        ELSE Caught(BuildReceipt(mkt, f.val.fields))[1]
      Routed(mkt) ==
        IF mkt = None THEN Failure(<<"Could not detect market from receipt">>)
        ELSE Built(mkt, GrammarFields(IF mkt = Some(PingoDoce) THEN "pingo_doce"
                                      ELSE "continente", txt))
  IN Routed(DetectMarket(txt))

-----------------------------------------------------------------------------
(* parse_receipt as the steps of a request context.  Every access to self.market is  *)
(* a step of its own; the work of a grammar on its own text and locals is one step.  *)

\* number of request contexts that may be inside parse_receipt at once
NumContexts == 2

Contexts == 1..NumContexts

\* the call: parse_receipt(txt) is entered
Call(t, txt) ==
  /\ pc[t] = "idle"
  /\ pc' = [pc EXCEPT ![t] = "detect"]
  /\ text' = [text EXCEPT ![t] = txt]
  /\ result' = [result EXCEPT ![t] = None]
  /\ entry' = [entry EXCEPT ![t] = market]
  /\ UNCHANGED <<market, fields>>

\* a detection that keeps the market an earlier call has found
Detect_Cached(t) ==
  /\ pc[t] = "detect"
  /\ market' = IF market = None THEN DetectMarket(text[t]) ELSE market
  /\ pc' = [pc EXCEPT ![t] = "check"]
  /\ UNCHANGED <<text, result, entry, fields>>

\* self.market = self._detect_market(text)
Detect(t) ==
  /\ pc[t] = "detect"
  /\ market' = DetectMarket(text[t])
  /\ pc' = [pc EXCEPT ![t] = "check"]
  /\ UNCHANGED <<text, result, entry, fields>>

\* if not self.market: return the "could not detect" failure
CheckMarket(t) ==
  /\ pc[t] = "check"
  /\ IF ~ Truthy(market)
     THEN /\ result' = [result EXCEPT
                          ![t] = Some(Failure(<<"Could not detect market from receipt">>))]
          /\ pc' = [pc EXCEPT ![t] = "done"]
     ELSE /\ pc' = [pc EXCEPT ![t] = "route"]
          /\ UNCHANGED result
  /\ UNCHANGED <<market, text, entry, fields>>

\* if self.market == "Pingo Doce"
RoutePingoDoce(t) ==
  /\ pc[t] = "route"
  /\ pc' = [pc EXCEPT ![t] = IF market = Some(PingoDoce) THEN "pingo_doce" ELSE "route2"]
  /\ UNCHANGED <<market, text, result, entry, fields>>

\* elif self.market == "Continente"
RouteContinente(t) ==
  /\ pc[t] = "route2"
  /\ pc' = [pc EXCEPT ![t] = IF market = Some(Continente) THEN "continente" ELSE "unsupported"]
  /\ UNCHANGED <<market, text, result, entry, fields>>

\* else: return the "Unsupported market" failure, formatted from self.market
Unsupported(t) ==
  /\ pc[t] = "unsupported"
  /\ result' = [result EXCEPT
                  ![t] = Some(Failure(<<"Unsupported market: ", MarketStr(market)>>))]
  /\ pc' = [pc EXCEPT ![t] = "done"]
  /\ UNCHANGED <<market, text, entry, fields>>

\* where a grammar goes with the outcome f of its extractors: to the return of
\* parse_receipt, or on to Receipt(...) with its locals
GrammarStep(t, f) ==
  IF ~ f.ok
  THEN /\ result' = [result EXCEPT ![t] = Caught(f)]
       /\ pc' = [pc EXCEPT ![t] = "done"]
       /\ UNCHANGED fields
  ELSE IF f.val.early
  THEN /\ result' = [result EXCEPT ![t] = Some(f.val.res)]
       /\ pc' = [pc EXCEPT ![t] = "done"]
       /\ UNCHANGED fields
  ELSE /\ pc' = [pc EXCEPT ![t] = "build"]
       /\ fields' = [fields EXCEPT ![t] = Some(f.val.fields)]
       /\ UNCHANGED result

\* the body of _parse_pingo_doce_receipt / _parse_continente_receipt up to Receipt(...)
Grammar(t) ==
  /\ pc[t] \in {"pingo_doce", "continente"}
  /\ GrammarStep(t, GrammarFields(pc[t], text[t]))
  /\ UNCHANGED <<market, text, entry>>

\* Receipt(market=self.market, ...) and return ExtractionResult(success=True, ...)
Build(t) ==
  /\ pc[t] = "build"
  /\ result' = [result EXCEPT ![t] = Caught(BuildReceipt(market, fields[t][1]))]
  /\ pc' = [pc EXCEPT ![t] = "done"]
  /\ UNCHANGED <<market, text, entry, fields>>

\* the caller takes the result; the context is free for the next request
Return(t) ==
  /\ pc[t] = "done"
  /\ pc' = [pc EXCEPT ![t] = "idle"]
  /\ text' = [text EXCEPT ![t] = <<>>]
  /\ result' = [result EXCEPT ![t] = None]
  /\ entry' = [entry EXCEPT ![t] = None]
  /\ fields' = [fields EXCEPT ![t] = None]
  /\ UNCHANGED market

-----------------------------------------------------------------------------
(* The texts parse_receipt is called with. *)

\* all sequences over S of length at most n
SeqsUpTo(S, n) == UNION {[1..k -> S] : k \in 0..n}

\* number of body lines of a text, after its head
MaxBodyLines == 3

\* the first lines of a Pingo Doce text: with a branch line, and with none before Tel.:
PDHeads ==
  { <<W(<<"PD", "PRELADA">>), W(<<"Pingo", "Doce">>)>>,
    <<W(<<"Tel.:", "226198120">>), W(<<"Pingo", "Doce">>)>> }

\* body lines of a Pingo Doce text: a section header, a product line, a discount line,
\* and a product line, a discount line and a total line with a malformed number
PDBodyLines ==
  { W(<<"PADARIA">>), W(<<"E", "PAO", "1,99">>), W(<<"Poupança", "Imediata", "(0,40)">>),
    W(<<"E", "BOLO", "1,2,3">>), W(<<"Poupança", "Imediata", "(,)">>),
    W(<<"TOTAL", "A", "PAGAR", ",">>) }

\* the first lines of a Continente text: with a branch line, and with a blank first line
CTHeads ==
  { <<W(<<"MCH", "Matosinhos">>), W(<<"MODELO", "CONTINENTE">>)>>,
    <<<<>>, W(<<"MODELO", "CONTINENTE">>)>> }

\* body lines of a Continente text
CTBodyLines ==
  { W(<<"Bebidas:">>), W(<<"(B)", "AGUA", "50CL">>), W(<<"3", "X", "0,50", "1,50">>),
    W(<<"(A)", "RESGUARDO", "15UN", "5,99">>) }

\* the totals block that ends a Continente text
CTTails ==
  { <<>>,
    <<W(<<"SUBTOTAL", "24,53">>), W(<<"TOTAL", "A", "PAGAR", "19,53">>)>>,
    <<W(<<"TOTAL", "A", "PAGAR", "61,20">>),
      W(<<"Total", "de", "descontos", "e", "poupancas", "5,31">>)>>,
    <<W(<<"TOTAL", "A", "PAGAR", "61,20">>)>>,
    <<W(<<"Total", "de", "descontos", "e", "poupancas", "5,31">>)>>,
    <<W(<<"TOTAL", "A", "PAGAR", ",">>)>> }

\* texts of no known market, and texts that name a market late, in lower case, or
\* name both markets
OtherTexts ==
  { <<W(<<"Loja", "Talho">>)>>,
    <<W(<<"Loja", "Talho">>), W(<<"PADARIA">>), W(<<"E", "PAO", "1,99">>)>>,
    <<W(<<"Loja", "Talho">>), W(<<"PADARIA">>), W(<<"MODELO", "CONTINENTE">>)>>,
    <<W(<<"PD", "PRELADA">>), W(<<"Tel.:", "226198120">>), W(<<"Pingo", "Doce">>),
      W(<<"MODELO", "CONTINENTE">>), W(<<"PADARIA">>), W(<<"E", "PAO", "1,99">>)>>,
    <<W(<<"pingo", "doce">>), W(<<"Loja", "Continente">>), W(<<"Bebidas:">>),
      W(<<"(A)", "RESGUARDO", "15UN", "5,99">>)>>,
    <<W(<<"Continente">>)>>,
    <<W(<<"Loja", "Talho">>), <<>>, W(<<"pingo", "doce">>)>> }

\* receipts with the lines of the parser's tests: quantities and prices on the product
\* line and on the line after it, a quantity of zero, two type letters, the date in
\* three notations, the column titles without a section header, and lines in the
\* shape of a section header that hold a digit or start with a type letter
EdgeTexts ==
  {<<W(<<"PD", "PRELADA">>), W(<<"Pingo", "Doce">>), W(<<"PADARIA">>)>> \o b : b \in
     { <<W(<<"E", "PAO", "0", "X", "1,99", "0,00">>)>>,
       <<W(<<"C", "SALMÃO", "2,000", "X", "3,69", "7,38">>)>>,
       <<W(<<"C", "BANANA", "0,645", "X", "1,25", "0,81">>)>>,
       <<W(<<"E", "C", "COLA", "2X1,75L", "3,69">>)>>,
       <<W(<<"E", "PAO", "1,99">>), W(<<"Data", "de", "emissão:", "16-08-2025">>)>>,
       <<W(<<"E", "PAO", "1,99">>), W(<<"Data", "de", "emissão:", "16/08/2025">>)>>,
       <<W(<<"E", "PAO", "1,99">>), W(<<"Data", "de", "emissão:", "16.08.2025">>)>>,
       <<W(<<"PEIXARIA", "2,000">>), W(<<"E", "PAO">>), W(<<"E", "PAO", "1,99">>)>> }}
  \cup
  {<<W(<<"MCH", "Matosinhos">>), W(<<"MODELO", "CONTINENTE">>)>> \o b : b \in
     { <<W(<<"Bebidas:">>), W(<<"(A)", "IOGURTE", "2", "X", "0,89", "1,78">>)>>,
       <<W(<<"Bebidas:">>), W(<<"(B)", "AGUA", "50CL">>), W(<<"0", "X", "0,50", "0,00">>)>>,
       <<W(<<"Bebidas:">>), W(<<"(B)", "AGUA", "50CL">>), W(<<"0,645", "X", "1,25", "0,81">>)>>,
       <<W(<<"Bebidas:">>), W(<<"(A)", "RESGUARDO", "15UN", "5,99">>),
         W(<<"Nro:FS", "AAA218/024041", "11/08/2025", "18:05">>)>>,
       <<W(<<"Bebidas:">>), W(<<"(A)", "RESGUARDO", "15UN", "5,99">>),
         W(<<"Nro:", "FS", "AAA218/024041", "11-08-2025">>)>>,
       <<W(<<"Bebidas:">>), W(<<"(A)", "RESGUARDO", "15UN", "5,99">>),
         W(<<"Nro:", "FS", "AAA218/024041", "16.08.2025">>)>>,
       <<W(<<"IVA", "DESCRICAO", "VALOR">>), W(<<"(A)", "RESGUARDO", "15UN", "5,99">>)>>,
       <<W(<<"Taxa", "23%:">>), W(<<"(A)", "RESGUARDO", "15UN", "5,99">>)>> }}

Texts ==
  {h \o b : h \in PDHeads, b \in SeqsUpTo(PDBodyLines, MaxBodyLines)}
  \cup {h \o b \o e : h \in CTHeads, b \in SeqsUpTo(CTBodyLines, MaxBodyLines), e \in CTTails}
  \cup OtherTexts
  \cup EdgeTexts

\* the texts of the concurrent requests: one per market, and one of no market
ConcTexts ==
  { <<W(<<"PD", "PRELADA">>), W(<<"Pingo", "Doce">>), W(<<"PADARIA">>),
      W(<<"E", "PAO", "1,99">>)>>,
    <<W(<<"MCH", "Matosinhos">>), W(<<"MODELO", "CONTINENTE">>), W(<<"Bebidas:">>),
      W(<<"(A)", "RESGUARDO", "15UN", "5,99">>)>>,
    <<W(<<"Loja", "Talho">>)>> }

-----------------------------------------------------------------------------
(* Specifications of parse_receipt. *)

ParseInit ==
  /\ market = None
  /\ pc = [t \in Contexts |-> "idle"]
  /\ text = [t \in Contexts |-> <<>>]
  /\ result = [t \in Contexts |-> None]
  /\ entry = [t \in Contexts |-> None]
  /\ fields = [t \in Contexts |-> None]

ScanIdle == lines = <<>> /\ idx = 0 /\ scan = [ctl |-> "off"] /\ scan_pc = "off"

BatchIdle ==
  /\ files = <<>> /\ fi = 0 /\ results = <<>> /\ successful = 0 /\ failed = 0
  /\ response = None /\ batch_pc = "off"

Init == ParseInit /\ ScanIdle /\ BatchIdle

\* a request enters parse_receipt while no other request is inside it
SeqCall(t) ==
  /\ \A u \in Contexts : pc[u] = "idle"
  /\ \E txt \in Texts : Call(t, txt)

\* a request enters parse_receipt, whatever the other requests do
ConcCall(t) == \E txt \in ConcTexts : Call(t, txt)

\* requests served one after the other by the one parser instance
Next ==
  /\ \E t \in Contexts :
        \/ SeqCall(t)
        \/ Detect(t)
        \/ CheckMarket(t)
        \/ RoutePingoDoce(t)
        \/ RouteContinente(t)
        \/ Grammar(t)
        \/ Build(t)
        \/ Return(t)
  /\ UNCHANGED <<scan_vars, batch_vars>>

Spec == Init /\ [][Next]_vars

\* requests served concurrently by the one parser instance
ConcNext ==
  /\ \E t \in Contexts :
        \/ ConcCall(t)
        \/ Detect(t)
        \/ CheckMarket(t)
        \/ RoutePingoDoce(t)
        \/ RouteContinente(t)
        \/ Unsupported(t)
        \/ Grammar(t)
        \/ Build(t)
        \/ Return(t)
  /\ UNCHANGED <<scan_vars, batch_vars>>

SpecConc == Init /\ [][ConcNext]_vars

-----------------------------------------------------------------------------
(* The two item scans as loops: one step per line of text.split('\n'). *)

\* number of lines of a scanned text
MaxScanLines == 4

\* lines of a Pingo Doce item block: two section headers, a product line, two discount
\* lines, the Resumo line, and a product line with a malformed number
PDScanVocab ==
  { W(<<"PADARIA">>), W(<<"PEIXARIA">>), W(<<"E", "PAO", "1,99">>),
    W(<<"Poupança", "Imediata", "(0,40)">>), W(<<"Poupança", "Imediata", "(3,40)">>),
    W(<<"Resumo:">>), W(<<"E", "BOLO", "1,2,3">>) }

\* lines of a Continente item block: a section header, a product line without and with
\* an inline price, continuation lines with an integer and a decimal quantity, a bare
\* price, a bare comma, a line that ends the scan, the column titles, and the total
\* line written with a colon
CTScanVocab ==
  { W(<<"Bebidas:">>), W(<<"(B)", "AGUA", "50CL">>), W(<<"(A)", "RESGUARDO", "15UN", "5,99">>),
    W(<<"3", "X", "0,50", "1,50">>), W(<<"0,645", "X", "1,25", "0,81">>),
    W(<<"1,50">>), W(<<",">>), W(<<"TOTAL", "A", "PAGAR", "61,20">>),
    W(<<"IVA", "DESCRICAO", "VALOR">>), W(<<"TOTAL", "A", "PAGAR:">>) }

\* _extract_products is entered with some text: the locals before the loop
InitScanPD ==
  /\ ParseInit
  /\ BatchIdle
  /\ lines \in SeqsUpTo(PDScanVocab, MaxScanLines)
  /\ idx = 0
  /\ scan = PDScanInit
  /\ scan_pc = "loop"

\* one iteration of the loop of _extract_products
PDLoop ==
  /\ scan_pc = "loop"
  /\ scan.ctl = "next"
  /\ idx < Len(lines)
  /\ scan' = PDScanLine(scan, lines[idx + 1])
  /\ idx' = idx + 1
  /\ UNCHANGED <<lines, scan_pc>>

\* return products: the loop is over, or was left by break
ScanReturn ==
  /\ scan_pc = "loop"
  /\ scan.ctl = "break" \/ (scan.ctl = "next" /\ idx = Len(lines))
  /\ scan_pc' = "returned"
  /\ UNCHANGED <<lines, idx, scan>>

\* an exception raised inside the loop leaves the method
ScanRaise ==
  /\ scan_pc = "loop"
  /\ scan.ctl = "raise"
  /\ scan_pc' = "raised"
  /\ UNCHANGED <<lines, idx, scan>>

NextScanPD ==
  /\ \/ PDLoop
     \/ ScanReturn
     \/ ScanRaise
  /\ UNCHANGED <<parse_vars, batch_vars>>

SpecScanPD == InitScanPD /\ [][NextScanPD]_vars

\* _extract_continente_products is entered with some text: the locals before the loop
InitScanCT ==
  /\ ParseInit
  /\ BatchIdle
  /\ lines \in SeqsUpTo(CTScanVocab, MaxScanLines)
  /\ idx = 0
  /\ scan = CTScanInit
  /\ scan_pc = "loop"

\* one iteration of the loop of _extract_continente_products
CTLoop ==
  /\ scan_pc = "loop"
  /\ scan.ctl = "next"
  /\ idx < Len(lines)
  /\ scan' = CTScanLine(scan, lines[idx + 1])
  /\ idx' = idx + 1
  /\ UNCHANGED <<lines, scan_pc>>

\* the statements after the loop: a pending product is appended, products is returned
CTReturn ==
  /\ scan_pc = "loop"
  /\ scan.ctl = "break" \/ (scan.ctl = "next" /\ idx = Len(lines))
  /\ scan' = CTFlush(scan)
  /\ scan_pc' = "returned"
  /\ UNCHANGED <<lines, idx>>

NextScanCT ==
  /\ \/ CTLoop
     \/ CTReturn
     \/ ScanRaise
  /\ UNCHANGED <<parse_vars, batch_vars>>

SpecScanCT == InitScanCT /\ [][NextScanCT]_vars


\* number of lines that follow the first product line of a scanned text
MaxTailLines == 4

\* _extract_products is entered with a text that has a section header, a product line
\* and, after them, lines of the item block and lines the scan knows nothing of
InitScanPDItem ==
  /\ ParseInit
  /\ BatchIdle
  /\ lines \in {<<W(<<"PADARIA">>), W(<<"E", "PAO", "1,99">>)>> \o tail :
                  tail \in SeqsUpTo(PDScanVocab \cup {W(<<"Loja", "Talho">>)}, MaxTailLines)}
  /\ idx = 0
  /\ scan = PDScanInit
  /\ scan_pc = "loop"

SpecScanPDItem == InitScanPDItem /\ [][NextScanPD]_vars
-----------------------------------------------------------------------------
(* The batch endpoint extract_receipts_batch.  The handler holds no await between the *)
(* call of parse_receipt and its return, so a parse inside a batch runs alone.        *)

\* str.lower on one character
LowerCh(c) ==
  IF IsUpperCh(c) THEN LowerSeq[CHOOSE i \in 1..Len(UpperSeq) : UpperSeq[i] = c] ELSE c

LowerStr(s) == [i \in 1..Len(s) |-> LowerCh(s[i])]

\* an uploaded file: its name (UploadFile.filename is Optional[str]), whether
\* file.read() raises, and what extract_text_from_pdf makes of its content (None
\* when pdfplumber fails)
UploadFile(filename, read, extracted) ==
  [filename |-> filename, read |-> read, text |-> extracted]

\* number of files of a request
MaxFiles == 3

PdfName == Some(<<"a", ".", "p", "d", "f">>)

GoodText ==
  <<W(<<"PD", "PRELADA">>), W(<<"Pingo", "Doce">>), W(<<"PADARIA">>), W(<<"E", "PAO", "1,99">>)>>

\* the files of the requests: a non-PDF name, a non-PDF name whose read would raise,
\* a file without a name, a file whose read raises, a PDF that pdfplumber cannot
\* open, an empty PDF, a receipt under an upper-case extension, a text of no known
\* market, and a receipt with a malformed number
FileKinds ==
  { UploadFile(Some(<<"n", ".", "t", "x", "t">>), "ok", Some(GoodText)),
    UploadFile(Some(<<"r", ".", "t", "x", "t">>), "raises", None),
    UploadFile(None, "ok", Some(GoodText)),
    UploadFile(PdfName, "raises", None),
    UploadFile(PdfName, "ok", None),
    UploadFile(PdfName, "ok", Some(<<<<>>>>)),
    UploadFile(Some(<<"A", ".", "P", "D", "F">>), "ok", Some(GoodText)),
    UploadFile(PdfName, "ok", Some(<<W(<<"Loja", "Talho">>)>>)),
    UploadFile(PdfName, "ok", Some(GoodText \o <<W(<<"E", "BOLO", "1,2,3">>)>>)) }

\* `not text` for the Optional[str] that extract_text_from_pdf returns
NoText(extracted) == extracted = None \/ TextChars(extracted[1]) = <<>>

\* the exception of a failed file.read()
ReadError == <<"read failed">>

\* what one iteration of `for file in files` appends and counts
Handled(res, s, f) == [result |-> res, successful |-> s, failed |-> f]

\* the result of parse_receipt, counted by its success flag
Counted(res) == IF res.success THEN Handled(res, 1, 0) ELSE Handled(res, 0, 1)

\* a loop body that does not count the files without text
HandleFile_Uncounted(file) ==
  IF ~ EndsWith(LowerStr(file.filename[1]), <<".", "p", "d", "f">>)
  THEN Handled(Failure(<<file.filename[1], ": Only PDF files supported">>), 0, 1)
  ELSE IF file.read = "raises"
  THEN Handled(Failure(<<file.filename[1], ": Error processing: ", ReadError>>), 0, 1)
  ELSE IF NoText(file.text)
  THEN Handled(Failure(<<file.filename[1], ": Could not extract text">>), 0, 0)
  ELSE Counted(ParseReceipt(file.text[1]))

\* a loop body that reads the file before it looks at its name
HandleFile_ReadFirst(file) ==
  IF file.read = "raises"
  THEN Handled(Failure(<<file.filename[1], ": Error processing: ", ReadError>>), 0, 1)
  ELSE IF ~ EndsWith(LowerStr(file.filename[1]), <<".", "p", "d", "f">>)
  THEN Handled(Failure(<<file.filename[1], ": Only PDF files supported">>), 0, 1)
  ELSE IF NoText(file.text)
  THEN Handled(Failure(<<file.filename[1], ": Could not extract text">>), 0, 1)
  ELSE Counted(ParseReceipt(file.text[1]))

\* the body of the loop of extract_receipts_batch for one file that has a name
HandleFile(file) ==
  IF ~ EndsWith(LowerStr(file.filename[1]), <<".", "p", "d", "f">>)
  THEN Handled(Failure(<<file.filename[1], ": Only PDF files supported">>), 0, 1)
  ELSE IF file.read = "raises"
  THEN Handled(Failure(<<file.filename[1], ": Error processing: ", ReadError>>), 0, 1)
  ELSE IF NoText(file.text)
  THEN Handled(Failure(<<file.filename[1], ": Could not extract text">>), 0, 1)
  ELSE Counted(ParseReceipt(file.text[1]))

\* the file reaches receipt_parser.parse_receipt
IsParsed(file) ==
  /\ file.filename # None
  /\ EndsWith(LowerStr(file.filename[1]), <<".", "p", "d", "f">>)
  /\ file.read = "ok"
  /\ ~ NoText(file.text)

\* BatchExtractionResult(results=..., total_files=..., ...)
BatchExtractionResult(res, total, s, f) ==
  [results |-> res, total_files |-> total, successful_extractions |-> s,
   failed_extractions |-> f]

\* a request reaches extract_receipts_batch
InitBatch ==
  /\ ParseInit
  /\ ScanIdle
  /\ files \in SeqsUpTo(FileKinds, MaxFiles)
  /\ fi = 0 /\ results = <<>> /\ successful = 0 /\ failed = 0
  /\ response = None
  /\ batch_pc = "entry"

\* if not files: raise HTTPException(status_code=400)
Reject400 ==
  /\ batch_pc = "entry"
  /\ files = <<>>
  /\ batch_pc' = "http400"
  /\ UNCHANGED <<market, files, fi, results, successful, failed, response>>

\* results = [], successful = 0, failed = 0
BatchEnter ==
  /\ batch_pc = "entry"
  /\ files # <<>>
  /\ results' = <<>> /\ successful' = 0 /\ failed' = 0
  /\ batch_pc' = "loop"
  /\ UNCHANGED <<market, files, fi, response>>

\* where one iteration leaves the locals, h being what it appends and counts
BatchCount(h) ==
  /\ results' = Append(results, h.result)
  /\ successful' = successful + h.successful
  /\ failed' = failed + h.failed

\* one iteration of `for file in files`; a parse leaves its market in the shared parser
BatchFile ==
  /\ batch_pc = "loop"
  /\ fi < Len(files)
  /\ files[fi + 1].filename # None
  /\ BatchCount(HandleFile(files[fi + 1]))
  /\ market' = IF IsParsed(files[fi + 1]) THEN DetectMarket(files[fi + 1].text[1]) ELSE market
  /\ fi' = fi + 1
  /\ UNCHANGED <<files, response, batch_pc>>

\* file.filename.lower() of a file without a name: None has no attribute lower, and
\* line 50 stands outside the try, so the AttributeError leaves the handler
BatchAbort ==
  /\ batch_pc = "loop"
  /\ fi < Len(files)
  /\ files[fi + 1].filename = None
  /\ batch_pc' = "http500"
  /\ UNCHANGED <<market, files, fi, results, successful, failed, response>>

\* return BatchExtractionResult(...)
BatchReturn ==
  /\ batch_pc = "loop"
  /\ fi = Len(files)
  /\ response' = Some(BatchExtractionResult(results, Len(files), successful, failed))
  /\ batch_pc' = "returned"
  /\ UNCHANGED <<market, files, fi, results, successful, failed>>

NextBatch ==
  /\ \/ Reject400
     \/ BatchEnter
     \/ BatchFile
     \/ BatchAbort
     \/ BatchReturn
  /\ UNCHANGED <<pc, text, result, entry, fields, scan_vars>>

SpecBatch == InitBatch /\ [][NextBatch]_vars

-----------------------------------------------------------------------------
(* Properties of parse_receipt. *)

\* the outcome a context holds when its call is over
Outcome(t) == result[t][1]

CouldNotDetect == Failure(<<"Could not detect market from receipt">>)

CouldNotExtractBranch == Failure(<<"Could not extract branch information">>)

NoProductsFound == Failure(<<"No products found in receipt">>)

\* C1: when parse_receipt calls run concurrently on the one shared parser, every
\* call is routed to the grammar of the market detected from its own text, and its
\* outcome equals the outcome of running the call alone on a fresh parser.
C1_ConcurrentCallsIndependent ==
  \A t \in Contexts :
    /\ pc[t] = "pingo_doce" => DetectMarket(text[t]) = Some(PingoDoce)
    /\ pc[t] = "continente" => DetectMarket(text[t]) = Some(Continente)
    /\ pc[t] = "unsupported" => FALSE
    /\ pc[t] = "done" => result[t] = Some(ParseReceipt(text[t]))

\* the branch and the items the grammar of the detected market extracts from a text
BranchOf(txt) ==
  IF DetectMarket(txt) = Some(PingoDoce) THEN ExtractBranch(txt)
  ELSE ExtractContinenteBranch(txt)

ItemsOf(txt) ==
  IF DetectMarket(txt) = Some(PingoDoce) THEN ExtractProducts(txt)
  ELSE ExtractContinenteProducts(txt)

\* the outcome r of a text follows the priority order of the failure reasons
InPriorityOrder(txt, r) ==
  IF DetectMarket(txt) = None THEN r = CouldNotDetect
  ELSE IF ~ Truthy(BranchOf(txt)) THEN r = CouldNotExtractBranch
  ELSE IF ItemsOf(txt) = Ok(<<>>) THEN r = NoProductsFound
  ELSE IF ItemsOf(txt).ok THEN r.success
  ELSE r.success \/ r = NoProductsFound

\* C2: parse_receipt reports "could not detect market" when no market is detected,
\* else "could not extract branch" when no branch is extracted, else "no products
\* found" when zero items are extracted, and else a success, whatever the invoice,
\* the date and the total are.
C2_FailurePriority ==
  \A t \in Contexts : pc[t] = "done" => InPriorityOrder(text[t], Outcome(t))

\* an outcome is all-or-nothing
AllOrNothing(r) ==
  /\ r.success =>
       /\ r.receipt # None
       /\ r.receipt[1].branch # <<>>
       /\ Len(r.receipt[1].products) >= 1
       /\ r.error_message = None
  /\ ~ r.success =>
       /\ r.receipt = None
       /\ r.error_message # None
       /\ r.error_message[1] # <<>>

\* C3: every call of parse_receipt ends with an outcome (it never raises), and the
\* outcome is all-or-nothing: a success holds a receipt with a non-empty branch and at
\* least one item and no error message, a failure holds no receipt and a non-empty
\* error message.
C3_AllOrNothing ==
  \A t \in Contexts : pc[t] = "done" => result[t] # None /\ AllOrNothing(Outcome(t))

\* a call ended with the failure made from an exception raised mid-parse
C3_Witness ==
  \E t \in Contexts :
    /\ pc[t] = "done"
    /\ ~ Outcome(t).success
    /\ Outcome(t).error_message[1][1] = "Error parsing receipt: "

\* C4: whatever earlier calls left in the parser, a call of parse_receipt served
\* alone returns the outcome a fresh parser returns for its text.
C4_SameAsFreshInstance ==
  \A t \in Contexts : pc[t] = "done" => Outcome(t) = ParseReceipt(text[t])

\* a Pingo Doce receipt is returned by a parser that an earlier call left at Continente
C4_Witness ==
  \E t \in Contexts :
    /\ pc[t] = "done"
    /\ entry[t] = Some(Continente)
    /\ Outcome(t).success
    /\ Outcome(t).receipt[1].market = PingoDoce

\* a token is a malformed number: made of digits and commas, inside parentheses or
\* not, and no decimal number
IsMalformedNumber(tok) ==
  LET Malformed(s) == IsNumTok(s) /\ FloatRaises(CommaToDot(s))
  IN Malformed(StripCh(tok, {"(", ")"}))

HasMalformedNumber(line) == \E k \in 1..Len(line) : IsMalformedNumber(line[k])

\* the lines of a text that hold no malformed number
RECURSIVE WellFormedLines(_)
WellFormedLines(txt) ==
  IF txt = <<>> THEN <<>>
  ELSE IF HasMalformedNumber(txt[1]) THEN WellFormedLines(Tail(txt))
  ELSE <<txt[1]>> \o WellFormedLines(Tail(txt))

\* C5: a malformed number never aborts the document: when the well-formed lines of a
\* text make a receipt, parse_receipt of the whole text returns a success too, and
\* no outcome is the failure of an exception raised by a number.
C5_MalformedNumberSkipped ==
  \A t \in Contexts :
    pc[t] = "done" =>
      /\ ParseReceipt(WellFormedLines(text[t])).success => Outcome(t).success
      /\ Outcome(t).success \/ Outcome(t).error_message[1][1] # "Error parsing receipt: "

-----------------------------------------------------------------------------
(* Properties of the Pingo Doce item scan. *)

\* a discount-annotation line "Poupança Imediata (amount)" with a decimal amount
IsDiscountAnnotation(line) ==
  /\ Len(line) = 3
  /\ line[1] = Chars("Poupança")
  /\ line[2] = Chars("Imediata")
  /\ Len(line[3]) >= 3
  /\ line[3][1] = "(" /\ line[3][Len(line[3])] = ")"
  /\ IsQtyTok(SubSeq(line[3], 2, Len(line[3]) - 1))

\* the amount of a discount-annotation line, in thousandths
AnnotatedAmount(line) == FloatVal(CommaToDot(SubSeq(line[3], 2, Len(line[3]) - 1)))

\* what the step from locals st to locals st2 over a discount-annotation line of
\* amount d may do: no item is added or removed, no item but the last changes, the
\* last item takes d as its discount if it has none and as its discount2 if it has a
\* discount only, and nothing is raised
DiscountAttached(st, st2, d) ==
  LET n == Len(st.products)
  IN /\ st2.ctl = "next"
     /\ Len(st2.products) = n
     /\ \A k \in 1..(n - 1) : st2.products[k] = st.products[k]
     /\ (n > 0 /\ st.products[n].discount = None) =>
          st2.products[n] = [st.products[n] EXCEPT !.discount = Some(d)]
     /\ (n > 0 /\ st.products[n].discount # None /\ st.products[n].discount2 = None) =>
          st2.products[n] = [st.products[n] EXCEPT !.discount2 = Some(d)]

\* C6: in the Pingo Doce item scan a discount-annotation line attaches to the item
\* parsed last: it fills that item's discount, a second one fills its discount2, and
\* one met before any item is dropped without error and leaves the item list unchanged.
C6_DiscountAttaches ==
  [][(scan_pc = "loop" /\ idx' = idx + 1 /\ IsDiscountAnnotation(lines[idx + 1]))
       => DiscountAttached(scan, scan', AnnotatedAmount(lines[idx + 1]))]_vars

\* the scan returned an item that holds a discount and a discount2
C6_Witness ==
  /\ scan_pc = "returned"
  /\ lines # <<>>
  /\ \E k \in 1..Len(scan.products) :
        scan.products[k].discount # None /\ scan.products[k].discount2 # None

\* a line that starts with "Resumo"
StartsWithResumo(line) ==
  /\ line # <<>>
  /\ Len(line[1]) >= 6
  /\ SubSeq(line[1], 1, 6) = <<"R", "e", "s", "u", "m", "o">>

\* the locals that hold the items, the category and the item discounts attach to
Scanned(st) == <<st.products, st.current_section, st.last_product>>

\* C7: the Pingo Doce item scan never takes a line located after a line that starts
\* with "Resumo", and once it has taken that line its items, its category and its
\* discounts are those of the lines before it.
C7_StopsAtResumo ==
  \A k \in 1..Len(lines) :
    StartsWithResumo(lines[k]) =>
      /\ idx <= k
      /\ idx = k => Scanned(scan) = Scanned(PDScanFrom(PDScanInit, SubSeq(lines, 1, k - 1), 1))

\* the scan returned at a Resumo line, under a category, with a product line after it
C7_Witness ==
  /\ scan_pc = "returned"
  /\ idx >= 1 /\ idx < Len(lines)
  /\ StartsWithResumo(lines[idx])
  /\ scan.current_section # None
  /\ \E j \in (idx + 1)..Len(lines) : lines[j] = W(<<"E", "PAO", "1,99">>)

-----------------------------------------------------------------------------
(* Properties of the Continente grammar. *)

\* the amount that follows a phrase of the text, None when the phrase has none
AmountOf(txt, phrase) ==
  LET Amount(a) ==
        IF a = <<>> \/ FloatRaises(CommaToDot(a)) THEN None ELSE Some(FloatVal(CommaToDot(a)))
  IN Amount(AmountAfter(TextChars(txt), phrase))

\* an attribute of a receipt, None when the receipt has no such attribute
Attr(rc, name) == IF name \in DOMAIN rc THEN rc[name] ELSE None

\* the totals of a receipt are reconciled from the amounts of its text
Reconciled(rc, subtotal, paid, savings) ==
  /\ Attr(rc, "total_paid") = paid
  /\ subtotal # None =>
       /\ rc.total = subtotal
       /\ paid # None => Attr(rc, "total_discount") = Some(subtotal[1] - paid[1])
  /\ subtotal = None =>
       /\ Attr(rc, "total_discount") = savings
       /\ rc.total = IF paid # None /\ savings # None THEN Some(paid[1] + savings[1]) ELSE None

\* C8: a Continente receipt has total = the SUBTOTAL amount, total_paid = the TOTAL A
\* PAGAR amount and total_discount = total - total_paid when the text has a SUBTOTAL
\* line; without one, total_paid = the TOTAL A PAGAR amount, total_discount = the
\* amount after "Total de descontos e poupancas", and total = their sum when both are
\* known, else unset.
C8_TotalsReconciled ==
  \A t \in Contexts :
    (pc[t] = "done" /\ Outcome(t).success /\ Outcome(t).receipt[1].market = Continente) =>
      Reconciled(Outcome(t).receipt[1],
                 AmountOf(text[t], Chars("SUBTOTAL")),
                 AmountOf(text[t], Lit(<<"TOTAL", "A", "PAGAR">>)),
                 AmountOf(text[t], Lit(<<"Total", "de", "descontos", "e", "poupancas">>)))

\* a continuation line "QTY X UNITPRICE LINETOTAL" of three decimal numbers
IsContinuation(line) ==
  /\ Len(line) = 4
  /\ IsQtyTok(line[1])
  /\ line[2] = <<"X">>
  /\ IsQtyTok(line[3])
  /\ IsQtyTok(line[4])

\* a line that is one decimal number
IsBareDecimal(line) == Len(line) = 1 /\ IsQtyTok(line[1])

Decimal(tok) == FloatVal(CommaToDot(tok))

\* the step from locals st to locals st2 turns the pending item into one item
Completed(st, st2, item) ==
  /\ st2.products = Append(st.products, item)
  /\ st2.pending_product = None

\* C9: in the Continente item scan, a product line without inline price followed by a
\* line "QTY X UNITPRICE LINETOTAL" yields one item of quantity QTY and price UNITPRICE
\* with the description and category of the product line; followed by a bare decimal
\* line, it yields one item of that price with the pending item's quantity.
C9_PendingItemCompleted ==
  [][(scan_pc = "loop" /\ idx' = idx + 1 /\ scan.pending_product # None) =>
       /\ IsContinuation(lines[idx + 1]) =>
            Completed(scan, scan',
                      [scan.pending_product[1] EXCEPT
                         !.quantity = Decimal(lines[idx + 1][1]),
                         !.price = Decimal(lines[idx + 1][3])])
       /\ IsBareDecimal(lines[idx + 1]) =>
            Completed(scan, scan',
                      [scan.pending_product[1] EXCEPT !.price = Decimal(lines[idx + 1][1])])]_vars

-----------------------------------------------------------------------------
(* Properties of the batch endpoint. *)

\* number of results whose success is true
RECURSIVE Successes(_)
Successes(res) ==
  IF res = <<>> THEN 0
  ELSE (IF res[1].success THEN 1 ELSE 0) + Successes(Tail(res))

\* the counts of a batch result agree with its results and with the files sent
CountsAgree(b, sent) ==
  /\ Len(b.results) = b.total_files
  /\ b.total_files = Len(sent)
  /\ b.successful_extractions + b.failed_extractions = b.total_files
  /\ b.successful_extractions = Successes(b.results)

\* C10: for every non-empty list of files the batch result has one result per file,
\* total_files equal to the number of files, successful_extractions equal to the
\* number of successful results, and successful + failed = total_files.
C10_BatchCounts ==
  batch_pc = "returned" => response # None /\ CountsAgree(response[1], files)

\* a batch of a receipt, a non-PDF file and an unreadable PDF was returned
C10_Witness ==
  /\ batch_pc = "returned"
  /\ Len(files) = MaxFiles
  /\ response[1].successful_extractions >= 1
  /\ \E i, j \in 1..Len(files) :
        /\ ~ IsParsed(files[i]) /\ files[i].read = "raises"
        /\ files[j].filename # None
        /\ ~ EndsWith(LowerStr(files[j].filename[1]), <<".", "p", "d", "f">>)


-----------------------------------------------------------------------------
(* Claims on the per-file outcomes of a batch.                                        *)

\* C11: a failure of one file, also an exception raised by its file-type check, never
\* aborts the batch: the handler never ends in an error, and a returned batch holds
\* one outcome for every input file.
C11_BatchAlwaysCompletes ==
  /\ batch_pc # "http500"
  /\ batch_pc = "returned" => Len(response[1].results) = Len(files)

\* the file name ends in .pdf, whatever the case of its letters
IsPdfName(name) ==
  /\ Len(name) >= 4
  /\ LowerStr(SubSeq(name, Len(name) - 3, Len(name))) = <<".", "p", "d", "f">>

\* the outcome of one file, told from that file alone
ItemOutcome(file) ==
  CASE ~ IsPdfName(file.filename[1]) ->
         Failure(<<file.filename[1], ": Only PDF files supported">>)
    [] IsPdfName(file.filename[1]) /\ file.read = "raises" ->
         Failure(<<file.filename[1], ": Error processing: ", ReadError>>)
    [] IsPdfName(file.filename[1]) /\ file.read = "ok" /\ NoText(file.text) ->
         Failure(<<file.filename[1], ": Could not extract text">>)
    [] OTHER -> ParseReceipt(file.text[1])

\* C12: every loop iteration appends the outcome that its file alone decides: 'Only
\* PDF files supported' for a name not ending in .pdf, without reading or parsing the
\* file (the shared parser keeps its state); otherwise 'Could not extract text' for a
\* missing or empty text, 'Error processing: <message>' for an unexpected error, and
\* otherwise exactly parse_receipt(text).
C12_ItemOutcomeByFileAlone ==
  [][batch_pc = "loop" /\ fi' = fi + 1
       => /\ results' = Append(results, ItemOutcome(files[fi + 1]))
          /\ ~ IsPdfName(files[fi + 1].filename[1]) => market' = market]_vars

\* a returned batch of a non-PDF file whose read would raise, an empty PDF and a
\* receipt, sent after one another
C12_Witness ==
  /\ batch_pc = "returned"
  /\ Len(files) = MaxFiles
  /\ files[1].filename # None /\ ~ IsPdfName(files[1].filename[1])
  /\ files[1].read = "raises"
  /\ files[2].filename # None /\ IsPdfName(files[2].filename[1])
  /\ files[2].read = "ok" /\ files[2].text = Some(<<<<>>>>)
  /\ IsParsed(files[3]) /\ response[1].results[3].success

-----------------------------------------------------------------------------
(* Claims on market detection.                                                        *)

\* some line of ls holds the brand, whatever the case of its letters
BrandIn(ls, brand) ==
  \E i \in 1..Len(ls) : Contains(UpperStr(LineChars(ls[i])), brand)

\* the first two lines of a text
FirstTwoLines(txt) == [i \in 1..(IF Len(txt) < 2 THEN Len(txt) ELSE 2) |-> txt[i]]

\* the market by the rule: Continente within the first two lines, else Pingo Doce
\* anywhere, else none
MarketByRule(txt) ==
  CASE BrandIn(FirstTwoLines(txt), Lit(<<"CONTINENTE">>)) -> Some(Continente)
    [] ~ BrandIn(FirstTwoLines(txt), Lit(<<"CONTINENTE">>))
         /\ BrandIn(txt, Lit(<<"PINGO", "DOCE">>)) -> Some(PingoDoce)
    [] OTHER -> None

\* C13: the detected market is Continente iff CONTINENTE occurs, in any case, within
\* the first two lines; otherwise Pingo Doce iff PINGO DOCE occurs, in any case,
\* anywhere in the text; otherwise none.  CONTINENTE after the second line never
\* selects Continente, and Continente wins when both hold.
C13_MarketDetection ==
  \A t \in Contexts : pc[t] = "check" => market = MarketByRule(text[t])

\* Pingo Doce was detected for a text with CONTINENTE on its fourth line
C13_Witness ==
  \E t \in Contexts :
    /\ pc[t] = "check"
    /\ market = Some(PingoDoce)
    /\ Len(text[t]) >= 4 /\ text[t][4] = W(<<"MODELO", "CONTINENTE">>)

\* Continente was detected for a text of both brands, in lower and mixed case
C13_BothBrands ==
  \E t \in Contexts :
    /\ pc[t] = "check"
    /\ market = Some(Continente)
    /\ text[t][1] = W(<<"pingo", "doce">>)

-----------------------------------------------------------------------------
(* Claims on the items of a receipt.                                                  *)

\* the items of the receipt that call t returns
Items(t) == Outcome(t).receipt[1].products

\* call t has returned a receipt
Succeeded(t) == pc[t] = "done" /\ Outcome(t).success

\* C14: every item of every successful receipt, of either grammar and of any line
\* shape or continuation line, has price >= 0 and quantity > 0.
C14_PriceAndQuantityRanges ==
  \A t \in Contexts :
    Succeeded(t) =>
      \A i \in 1..Len(Items(t)) : Items(t)[i].price >= 0 /\ Items(t)[i].quantity > 0

\* the last four tokens of a line
LastFour(line) == SubSeq(line, Len(line) - 3, Len(line))

\* a Continente product line that leaves its price to the next line
LeavesPriceOpen(line) ==
  /\ Len(line) >= 2
  /\ IsContinenteProductStart(line[1])
  /\ ~ IsNumTok(line[Len(line)])

\* the last item of the text has "QTY X UNITPRICE LINETOTAL" in its source: at the end
\* of its product line, or as the line after a product line that leaves its price open
LastItemCarriesTimes(txt) ==
  /\ Len(txt) >= 2
  /\ Len(txt[Len(txt)]) >= 4
  /\ IsContinuation(LastFour(txt[Len(txt)]))
  /\ Len(txt[Len(txt)]) = 4 => LeavesPriceOpen(txt[Len(txt) - 1])

\* C15: the price of an item is the per-unit price, never the line total: an item
\* whose source carries "QTY X UNITPRICE LINETOTAL", on the product line itself or on
\* the continuation line, in either grammar, has price UNITPRICE and quantity QTY.
C15_UnitPriceNotLineTotal ==
  \A t \in Contexts :
    (Succeeded(t) /\ LastItemCarriesTimes(text[t])) =>
      /\ Items(t)[Len(Items(t))].price = Decimal(LastFour(text[t][Len(text[t])])[3])
      /\ Items(t)[Len(Items(t))].quantity = Decimal(LastFour(text[t][Len(text[t])])[1])

-----------------------------------------------------------------------------
(* Claims on the scalar fields of a receipt.                                          *)

\* d is written DD<sep>MM<sep>YYYY with both separators in seps
IsWrittenDate(d, seps) ==
  /\ Len(d) = 10
  /\ \A k \in {1, 2, 4, 5, 7, 8, 9, 10} : d[k] \in Digits
  /\ d[3] \in seps /\ d[6] \in seps

\* the tokens of a text written DD-MM-YYYY or DD/MM/YYYY
WrittenDates(txt) ==
  {d \in UNION {{txt[i][k] : k \in 1..Len(txt[i])} : i \in 1..Len(txt)} :
     IsWrittenDate(d, {"-", "/"})}

\* the date of the receipt that call t returns
DateOf(t) == Outcome(t).receipt[1].date

\* C16: a date that is present has the form DD/MM/YYYY, in both grammars: a source
\* date written DD-MM-YYYY is returned with slashes, one written DD/MM/YYYY is
\* returned unchanged, and no date of any other shape is returned.
C16_DateNormalized ==
  \A t \in Contexts :
    (Succeeded(t) /\ DateOf(t) # None) =>
      /\ IsWrittenDate(DateOf(t)[1], {"/"})
      /\ \A d \in WrittenDates(text[t]) :
            DateOf(t)[1] = [k \in 1..10 |-> IF d[k] = "-" THEN "/" ELSE d[k]]

\* the first line of a text that is not blank
FirstNonBlankLine(txt) == txt[CHOOSE i \in 1..Len(txt) : txt[i] # <<>> /\ \A j \in 1..(i - 1) : txt[j] = <<>>]

\* C17: for a text detected as Continente the branch is the first non-blank line of
\* the document, unconditionally: leading blank lines are skipped, so the text gets a
\* branch and never fails with the branch-missing reason.
C17_ContinenteBranchFirstNonBlank ==
  \A t \in Contexts :
    (pc[t] = "done" /\ MarketByRule(text[t]) = Some(Continente)) =>
      /\ Outcome(t) # CouldNotExtractBranch
      /\ Outcome(t).success =>
           Outcome(t).receipt[1].branch = LineChars(FirstNonBlankLine(text[t]))

-----------------------------------------------------------------------------
(* Claims on the line shapes of the Pingo Doce grammar.                               *)

\* a line 'TYPE1 TYPE2 desc QTYTOKEN UNITPRICE' of two type letters that is none of
\* the shapes with X between a quantity and a price
IsDualTypeLine(line) ==
  /\ Len(line) >= 5
  /\ IsTypeTok(line[1]) /\ IsTypeTok(line[2])
  /\ IsQtyTok(line[Len(line)])
  /\ ~ IsContinuation(LastFour(line))

\* the item of a dual-type line: the first integer inside QTYTOKEN (1.0 if it has none)
\* as quantity, UNITPRICE as price, TYPE2 before desc as description
DualTypeItem(line, item) ==
  /\ item.quantity = (IF HasDigit(line[Len(line) - 1])
                      THEN FloatVal(FirstInt(line[Len(line) - 1])) ELSE Scale)
  /\ item.price = Decimal(line[Len(line)])
  /\ item.product = LineChars(SubSeq(line, 2, Len(line) - 2))

\* C19: the four line shapes of the Pingo Doce grammar are tried in priority order,
\* first match wins, and a dual-type line 'TYPE1 TYPE2 desc QTYTOKEN UNITPRICE' (e.g.
\* 'E C COLA 2X1,75L 3,69') yields an item whose quantity is the first integer inside
\* QTYTOKEN (1.0 if none), whose price is UNITPRICE and whose description is TYPE2
\* prepended to desc.
C19_DualTypeLine ==
  \A t \in Contexts :
    (Succeeded(t) /\ Outcome(t).receipt[1].market = PingoDoce
       /\ IsDualTypeLine(text[t][Len(text[t])])) =>
      DualTypeItem(text[t][Len(text[t])], Items(t)[Len(Items(t))])

-----------------------------------------------------------------------------
(* Claims on the Continente item scan.                                                *)

\* the line holds the column titles, whatever the case of its letters
HasColumnTitles(line) ==
  Contains(UpperStr(LineChars(line)), Lit(<<"IVA", "DESCRICAO", "VALOR">>))

\* C18: in the Continente item scan no item is produced from a line that stands
\* before the first line holding the column titles "IVA DESCRICAO VALOR": while the
\* scan has an item, finished or pending, it has passed such a line.
C18_NoItemBeforeColumnTitles ==
  (scan_pc \in {"loop", "returned"}
     /\ (scan.products # <<>> \/ scan.pending_product # None))
    => \E i \in 1..idx : HasColumnTitles(lines[i])

\* a section header: a line that ends with ':' and does not start with '('
IsSectionLine(line) ==
  /\ line # <<>>
  /\ line[Len(line)][Len(line[Len(line)])] = ":"
  /\ line[1][1] # "("

\* a product line: '(LETTER)' and a description
IsItemLine(line) == Len(line) >= 2 /\ IsContinenteProductStart(line[1])

\* the description of a product line: its tokens after '(LETTER)', without the price
ItemName(line) ==
  LineChars(SubSeq(line, 2, IF IsNumTok(line[Len(line)]) THEN Len(line) - 1 ELSE Len(line)))

\* the descriptions of the product lines of ls that stand under a section header, in
\* the order of the lines
RECURSIVE NamesOfItemLines(_, _)
NamesOfItemLines(ls, sectioned) ==
  IF ls = <<>> THEN <<>>
  ELSE IF IsSectionLine(ls[1]) THEN NamesOfItemLines(Tail(ls), TRUE)
  ELSE IF sectioned /\ IsItemLine(ls[1])
  THEN <<ItemName(ls[1])>> \o NamesOfItemLines(Tail(ls), TRUE)
  ELSE NamesOfItemLines(Tail(ls), sectioned)

\* the descriptions of a sequence of items
NamesOf(items) == [k \in 1..Len(items) |-> items[k].product]

\* the item still pending inside the loop, as a sequence of at most one item
PendingItems ==
  IF scan_pc = "loop" /\ scan.pending_product # None THEN <<scan.pending_product[1]>>
  ELSE <<>>

\* C20: in the Continente item scan at most one item is pending, and every product line
\* met so far stands for exactly one item, emitted or still pending, in the order of
\* the lines; in the returned result every such line has exactly one item, and an item
\* pending at the end of the scan, also at a terminator, is the last item of the result
\* with the price it had.
C20_OneItemPerProductLine ==
  (scan_pc \in {"loop", "returned"} /\ scan.ctl # "raise") =>
    /\ Len(scan.pending_product) <= 1
    /\ NamesOf(scan.products \o PendingItems) = NamesOfItemLines(SubSeq(lines, 1, idx), FALSE)
    /\ (scan_pc = "returned" /\ scan.pending_product # None) =>
          scan.products[Len(scan.products)] = scan.pending_product[1]

\* a scan returned two items: one emitted by its continuation line, and one pending
\* until the terminator that stopped the scan
C20_Witness ==
  /\ scan_pc = "returned"
  /\ scan.ctl = "break"
  /\ Len(scan.products) = 2
  /\ scan.products[1].price > 0
  /\ scan.pending_product = Some(scan.products[2])

-----------------------------------------------------------------------------
(* Claims on the section headers and the end of the item scans.                       *)

\* the line holds one of the markers that end the Continente item list, whatever the
\* case of its letters
HasTerminator(line) ==
  LET Holds(upper) ==
        \/ Contains(upper, Lit(<<"TOTAL", "A", "PAGAR">>))
        \/ Contains(upper, UpperStr(Lit(<<"Cartao", "Credito">>)))
        \/ Contains(upper, Lit(<<"IVA", "INCLUIDO">>))
  IN Holds(UpperStr(LineChars(line)))

\* C21: the Continente item scan stops at the first line that holds a terminator
\* marker: an iteration of the loop over a line at or after that line leaves the scan
\* with the loop left, and starts no item, changes no category and completes no
\* pending item.
C21_StopsAtTerminator ==
  [][(scan_pc = "loop" /\ idx' = idx + 1
        /\ \E i \in 1..(idx + 1) : HasTerminator(lines[i]))
       => /\ scan'.ctl = "break"
          /\ scan'.products = scan.products
          /\ scan'.pending_product = scan.pending_product
          /\ scan'.current_section = scan.current_section]_vars

\* a Pingo Doce section header, told from the tokens of the line: capital letters, no
\* small letter and no digit, and not a one-letter first token followed by more
IsHeaderLine(line) ==
  /\ \E t \in 1..Len(line) : \E i \in 1..Len(line[t]) : IsUpperCh(line[t][i])
  /\ \A t \in 1..Len(line) : \A i \in 1..Len(line[t]) :
        ~ IsLowerCh(line[t][i]) /\ line[t][i] \notin Digits
  /\ ~ (Len(line) >= 2 /\ Len(line[1]) = 1 /\ line[1][1] \in UpperAZ)

\* the number of the last section-header line among the first k lines, 0 if none is
LastHeader(k) ==
  LET Last(S) == IF S = {} THEN 0 ELSE CHOOSE i \in S : \A j \in S : j <= i
  IN Last({i \in 1..k : IsHeaderLine(lines[i])})

\* C22: in the Pingo Doce item scan an iteration of the loop that yields an item has
\* a section-header line before its line, and the category of the item is the last
\* such line; no iteration changes the category of an item yielded before: a product
\* line before the first section header yields no item, and every item carries the
\* most recent section header that precedes its product line.
C22_CategoryIsLastHeader ==
  [][(scan_pc = "loop" /\ idx' = idx + 1) =>
       /\ Len(scan'.products) \in {Len(scan.products), Len(scan.products) + 1}
       /\ \A k \in 1..Len(scan.products) :
             scan'.products[k].product_type = scan.products[k].product_type
       /\ Len(scan'.products) > Len(scan.products) =>
             /\ LastHeader(idx) # 0
             /\ scan'.products[Len(scan'.products)].product_type
                  = LineChars(lines[LastHeader(idx)])]_vars

\* a product line before the first section header yielded nothing, and the product
\* line after two different section headers yielded the one item, under the second
C22_Witness ==
  /\ scan_pc = "returned"
  /\ Len(lines) = 4
  /\ lines[1] = lines[4]
  /\ IsHeaderLine(lines[2]) /\ IsHeaderLine(lines[3]) /\ lines[2] # lines[3]
  /\ Len(scan.products) = 1
  /\ scan.products[1].product_type = LineChars(lines[3])

\* the category is a section header by the rule: no digit in it, and no single
\* capital letter followed by a blank at its start
IsCategoryByRule(c) ==
  /\ \A i \in 1..Len(c) : c[i] \notin Digits
  /\ ~ (Len(c) >= 2 /\ c[1] \in UpperAZ /\ c[2] = " ")

\* C23: a line is a section header only if it holds no digit and does not start with
\* a single capital letter followed by a blank, in both grammars: the category of
\* every item of every receipt returned is such a line.
C23_HeaderRule ==
  \A t \in Contexts :
    Succeeded(t) =>
      \A i \in 1..Len(Items(t)) : IsCategoryByRule(Items(t)[i].product_type)

\* what the step from locals st to locals st2 over a discount-annotation line of
\* amount d does when an item has been parsed: it writes the first free slot of the
\* last item, and its discount2 again once both are taken; the other fields of that
\* item, every earlier item and the number of items stay
DiscountOnLastItem(st, st2, d) ==
  LET n == Len(st.products)
      Slots(item) == IF item.discount = None
                     THEN [item EXCEPT !.discount = Some(d)]
                     ELSE [item EXCEPT !.discount2 = Some(d)]
  IN /\ Len(st2.products) = n
     /\ \A k \in 1..(n - 1) : st2.products[k] = st.products[k]
     /\ st2.products[n] = Slots(st.products[n])

\* what the step from locals st to locals st2 over any other line does to the items
\* parsed before it: nothing
ItemsKept(st, st2) ==
  /\ Len(st2.products) >= Len(st.products)
  /\ \A k \in 1..Len(st.products) : st2.products[k] = st.products[k]

\* C24: in the Pingo Doce item scan only a discount line changes an item parsed
\* before, and it changes only the item parsed last, whatever section headers and
\* unrecognized lines stand between the two: the first discount of an item, once
\* set, stays; the second and every later discount line of the item writes its
\* amount to discount2; every field of every earlier item and the number of items
\* stay.
C24_DiscountsOnlyOnLastItem ==
  [][(scan_pc = "loop" /\ idx' = idx + 1) =>
       /\ IF IsDiscountAnnotation(lines[idx + 1]) /\ scan.products # <<>>
          THEN DiscountOnLastItem(scan, scan', AnnotatedAmount(lines[idx + 1]))
          ELSE ItemsKept(scan, scan')
       /\ \A k \in 1..Len(scan.products) :
             scan.products[k].discount # None =>
               scan'.products[k].discount = scan.products[k].discount]_vars

\* the one item of the scan took three discount lines, the third after a section
\* header: it holds the amount of the first as discount and that of the third, not
\* of the second, as discount2
C24_Witness ==
  /\ scan_pc = "returned"
  /\ Len(lines) = 6
  /\ IsDiscountAnnotation(lines[3]) /\ IsDiscountAnnotation(lines[4])
  /\ IsHeaderLine(lines[5])
  /\ IsDiscountAnnotation(lines[6])
  /\ AnnotatedAmount(lines[4]) # AnnotatedAmount(lines[6])
  /\ Len(scan.products) = 1
  /\ scan.products[1].discount = Some(AnnotatedAmount(lines[3]))
  /\ scan.products[1].discount2 = Some(AnnotatedAmount(lines[6]))
====
